---- MODULE Spec2Model ----
(***************************************************************************)
(* Model of the ox OpenXR runtime service (src/src/service/main.cpp): the  *)
(* control task (accept -> message loop -> close -> re-create), the        *)
(* request handlers, the handle allocator, the session state cell and the  *)
(* event queue, together with the detached threads that HandleCreateSession*)
(* starts for the delayed SYNCHRONIZED / FOCUSED transitions.              *)
(*                                                                         *)
(* Task 0 is the control task; tasks 1..MaxSessions are the detached       *)
(* threads, in the order in which CreateSession requests started them.     *)
(* TransitionSessionState is not atomic in the code; it is modelled one    *)
(* shared-memory access per step so that every interleaving of the tasks   *)
(* is explored.                                                            *)
(***************************************************************************)
EXTENDS Integers, Sequences, FiniteSets, TLC

(* ---------------------------- bounds ----------------------------------- *)
\* largest handle value the allocator hands out
MaxHandles == 3
\* largest sequence number a client puts in a request header
MaxSequence == 1
\* SessionSpec: number of CreateSession requests (each starts a detached thread)
MaxSessions == 2
\* largest value the steady clock returns
MaxTime == 1
\* Spec and RaceSpec: number of CreateSession requests
MaxThreads == 1
\* FrameSpec: number of ticks of the frame task
MaxFrames == 3
\* ClientSpec: number of application threads calling into the client
MaxAppThreads == 2
\* ClientSpec: number of requests the client numbers with sequence_
MaxRequests == 7
\* PathSpec: longest path string interned
MaxPathLen == 2
\* PathSpec: largest value of std::hash<std::string> (2^64 - 1 in the build)
MaxHash == 2
\* InstanceSpec: largest handle the service gives to the client
MaxClientHandles == 3

\* ActionSpec: calls of xrSuggestInteractionProfileBindings an application makes
MaxSuggestions == 2
\* TextureSpec: frames an application submits with xrEndFrame
MaxSubmits == 3
\* DriverSpec: calls of DriverLoader::LoadDriver the service makes
MaxLoads == 3

(* ------------------------ program constants ---------------------------- *)
PROTOCOL_VERSION == 2
HT_SESSION == 2
HT_SPACE == 3
SizeofAllocateHandleRequest == 4
SizeofAllocateHandleResponse == 8
SizeofRequestExitSessionRequest == 8
SizeofSessionStateEvent == 24
SizeofInputStateRequest == 392
SizeofRuntimePropertiesResponse == 144
SizeofSystemPropertiesResponse == 284
SizeofViewConfigurationsResponse == 32
SizeofInteractionProfilesResponse == 1028
\* InputComponentStateRequest / Response are used by the dispatcher but declared
\* in no header under src/; the request is given the one input-request layout
\* that is declared, the response its five 4-byte fields
SizeofInputComponentStateRequest == SizeofInputStateRequest
SizeofInputComponentStateResponse == 5 * 4

\* enum class MessageType, plus the enumerator the dispatcher names that the
\* header does not declare, plus one value outside the enumeration
MessageType ==
    { "CONNECT", "DISCONNECT", "CREATE_SESSION", "DESTROY_SESSION",
      "BEGIN_FRAME", "END_FRAME", "SHARE_GRAPHICS_HANDLE", "ALLOCATE_HANDLE",
      "GET_NEXT_EVENT", "GET_RUNTIME_PROPERTIES", "GET_SYSTEM_PROPERTIES",
      "GET_VIEW_CONFIGURATIONS", "GET_INTERACTION_PROFILES",
      "GET_INPUT_STATE_BOOLEAN", "GET_INPUT_STATE_FLOAT",
      "GET_INPUT_STATE_VECTOR2F", "REQUEST_EXIT_SESSION", "RESPONSE" }

\* enum class SessionState
SessionState ==
    { "UNKNOWN", "IDLE", "READY", "SYNCHRONIZED", "VISIBLE", "FOCUSED",
      "STOPPING", "EXITING" }

\* the request types a peer can put in a header: the declared enumerators,
\* the dispatcher's GET_INPUT_COMPONENT_STATE, and a number that is none of them
RequestTypes == MessageType \cup { "GET_INPUT_COMPONENT_STATE", "UNLISTED" }

\* struct MessageHeader (reserved is never read)
MessageHeader(t, s, n) == [type |-> t, sequence |-> s, payload_size |-> n]

NoHeader == MessageHeader("NONE", 0, 0)

\* a payload is its byte count and the value its leading bytes encode
Bytes(n, d) == [size |-> n, data |-> d]

EmptyPayload == Bytes(0, 0)

\* the payloads a peer attaches to a request of type t
PayloadsFor(t) ==
    CASE t = "ALLOCATE_HANDLE" ->
            { EmptyPayload, Bytes(2, HT_SPACE),
              Bytes(SizeofAllocateHandleRequest, HT_SESSION),
              Bytes(SizeofAllocateHandleRequest, HT_SPACE) }
      [] t = "REQUEST_EXIT_SESSION" ->
            { Bytes(SizeofRequestExitSessionRequest, HT_SPACE) }
      [] t \in { "GET_INPUT_STATE_BOOLEAN", "GET_INPUT_STATE_FLOAT",
                 "GET_INPUT_STATE_VECTOR2F" } ->
            { Bytes(SizeofInputStateRequest, HT_SPACE) }
      [] t = "GET_INPUT_COMPONENT_STATE" ->
            { EmptyPayload, Bytes(SizeofInputComponentStateRequest, HT_SPACE) }
      [] OTHER -> { EmptyPayload }

(* ----------------------------- state ----------------------------------- *)
VARIABLES
    ctl,                    \* position of the control task
    hdr,                    \* MessageLoop: header of the request being handled
    payload,                \* MessageLoop: the payload vector
    wire_out,               \* frames the service sent in the step just taken
    client_connected,       \* SharedData::client_connected
    session_state,          \* SharedData::session_state
    active_session_handle,  \* SharedData::active_session_handle
    next_handle_,           \* OxService::next_handle_
    allocated_handles_,     \* OxService::allocated_handles_
    pending_events_,        \* OxService::pending_events_
    now,                    \* last value steady_clock::now() returned
    task,                   \* per task: position in TransitionSessionState
    atomic,                 \* scheduling: TRUE when tasks run to completion
    nsess,                  \* number of detached threads started
    nwrites,                \* history: number of stores to session_state
    npushed,                \* history: number of events pushed
    ndelivered,             \* history: number of events a client was sent
    delivered_timestamp,    \* history: timestamp of the event sent most recently
    issued,                 \* history: handles returned by AllocateHandle
    held,                   \* history: how many of them before the last Accept
    pre,                    \* history: snapshot taken when a request is read
    scenario,               \* history: the session request polling follows
    frame_counter_,         \* OxService::frame_counter_
    frame_state,            \* SharedData::frame_state
    producer,               \* the frame task: position in UpdatePoseData, locals
    reader,                 \* a client thread reading frame_state: position, copy
    seen,                   \* history: the values a client read last
    client,                 \* the ServiceConnection of the client process
    app,                    \* the application threads inside client calls
    paths,                  \* g_string_to_path, g_path_to_string
    rt,                     \* g_instances, g_sessions and the service
                            \* connection as the entry points see it
    input,                  \* g_actions, g_bindings, the interaction profiles
    texture,                \* FrameState::textures of one eye, its writer
                            \* and its reader
    driver_,                \* OxService::driver_, the DriverLoader
    peers                   \* the client processes around the service: where
                            \* each is in Connect() / Disconnect()

service == << ctl, hdr, payload, wire_out, client_connected,
           session_state, active_session_handle, next_handle_,
           allocated_handles_, pending_events_, task, atomic, nsess,
           nwrites, npushed, ndelivered, delivered_timestamp, issued, held, pre,
           scenario >>

frames == << frame_counter_, frame_state, producer, reader, seen >>

\* the tables of the client runtime (runtime.cpp 100-183)
tables == << paths, rt >>

\* the action and binding tables of the client runtime (runtime.cpp 155-181)
\* and the texture block of an eye (messages.h 186-194)
extras == << input, texture >>

\* the driver host of the service (driver_loader.h) and the client
\* processes that come and go (service_connection.cpp 15-79)
host == << driver_, peers >>

\* everything outside the control and frame tasks of the service
clients == << client, app, tables, extras, host >>

vars == << service, now, frames, clients >>

Tasks == 0 .. MaxSessions

\* struct SessionStateEvent; w and n are history tags, not fields of the
\* struct: the event reports the w-th store to session_state and is the n-th
\* event pushed
SessionStateEvent(h, s, t) ==
    [session_handle |-> h, state |-> s, timestamp |-> t, w |-> 0, n |-> 0]

NoEvent == SessionStateEvent(0, "UNKNOWN", 0)

\* a task's frame of TransitionSessionState: pc "off" when it is not inside it
\* (target "NONE": thread not started, "DONE": thread finished)
Frame(pc, target) == [pc |-> pc, target |-> target, event |-> NoEvent]

\* history: nothing recorded about the request being handled
NoSnapshot == [handle |-> 0, pushed |-> << >>]

\* the states in which a session is running
Running == { "READY", "SYNCHRONIZED", "VISIBLE", "FOCUSED" }

\* a view field nobody has written since the shared memory was zeroed
Unwritten == 0 - 1

\* struct View as far as xrLocateViews reads it; a field is modelled by the
\* frame_id of the tick that wrote it
View(pose, fov) == [pose |-> pose, fov |-> fov]

\* struct FrameState after SharedMemory::Create zeroed it
ZeroFrameState ==
    [frame_id |-> 0, predicted_display_time |-> 0,
     views |-> << View(Unwritten, Unwritten), View(Unwritten, Unwritten) >>,
     devices |-> Unwritten]

\* the reading client thread before it starts
NoRead ==
    [pc |-> "idle", first |-> 0, second |-> 0,
     views |-> << View(Unwritten, Unwritten), View(Unwritten, Unwritten) >>]

\* the characters of path strings
Chars == { "a", "b" }

\* the path strings an application interns
Strings == UNION { [1 .. n -> Chars] : n \in 1 .. MaxPathLen }

\* the values of std::hash<std::string>, cast to XrPath
Hashes == 0 .. MaxHash

\* the text xrPathToString gives for a path it does not know
UnknownPath ==
    << "/", "u", "n", "k", "n", "o", "w", "n", "/", "p", "a", "t", "h" >>

\* a std::unordered_map without entries
EmptyMap == [k \in { } |-> 0]

\* the path tables of a client that was just loaded, whose standard library
\* hashes strings with h
NoPaths(h) ==
    [hash |-> h,
     g_string_to_path |-> EmptyMap,
     g_path_to_string |-> EmptyMap,
     returned |-> EmptyMap,     \* history: the token xrStringToPath gave for s
     out |-> [path |-> 0, count |-> 0, buffer |-> << >>]]

\* the output variables a caller passes, before the call stored anything
NoOutput == [instance |-> 0, session |-> 0, count |-> 0]

\* no entry point was called yet
NoResult ==
    [n |-> 0, call |-> "none", arg |-> 0, result |-> "NONE", failed |-> FALSE]

\* the client runtime after it was loaded, next to a running service
NoRuntime ==
    [g_instances |-> { },
     g_sessions |-> EmptyMap,
     connected_ |-> FALSE,
     shared_data_ |-> "null",           \* "null", "mapped" or "dangling"
     channel |-> "none",                \* control_: "none", "open" or "broken"
     alive |-> TRUE,                    \* the service process runs
     next_handle_ |-> 1,                \* the service's handle allocator
     active_session_handle |-> 0,       \* SharedData::active_session_handle
     out |-> NoOutput,
     last |-> NoResult,                 \* history: the call just made
     dead |-> { },                      \* history: handles of destroyed instances
     destroyed |-> { }]                 \* history: instances destroyed

\* a hash function, for the specifications that intern nothing
DefaultHash == [s \in Strings |-> Len(s) % (MaxHash + 1)]

\* the path strings of the binding tables: "l" stands for /user/hand/left,
\* "r" for /user/hand/right and "i" for /input/trigger/value
LeftHand == << "l" >>
RightHand == << "r" >>
Component == << "i" >>

\* the interaction profiles: the application suggests bindings for p and q,
\* the driver may also list d
ProfileP == << "p" >>
ProfileQ == << "q" >>
ProfileD == << "d" >>

InputPaths ==
    << LeftHand, RightHand, LeftHand \o Component, RightHand \o Component,
       ProfileP, ProfileQ, ProfileD >>

InputStrings == { InputPaths[k] : k \in DOMAIN InputPaths }

\* a std::hash that gives these strings different values, none of them 0
InputHash ==
    [s \in InputStrings |-> CHOOSE k \in DOMAIN InputPaths : InputPaths[k] = s]

\* the strings the application interned with xrStringToPath
AppStrings == InputStrings \ { ProfileD }

\* the path tables after the application interned its strings
AppPaths ==
    [NoPaths(InputHash) EXCEPT
        !.g_string_to_path = [s \in AppStrings |-> InputHash[s]],
        !.g_path_to_string =
            [p \in { InputHash[s] : s \in AppStrings } |-> InputPaths[p]],
        !.returned = [s \in AppStrings |-> InputHash[s]]]

\* the actions the application passes; 3 was never created
Actions == { 1, 2, 3 }

\* g_actions after the application created action 1 for both hands and
\* action 2 without subaction paths
AppActions ==
    [a \in { 1, 2 } |->
        [subaction_paths |->
            IF a = 1 THEN << InputHash[LeftHand], InputHash[RightHand] >>
            ELSE << >>]]

\* the profile lists a driver reports (InteractionProfilesResponse)
DriverLists ==
    { << >>, << ProfileQ, ProfileP >>, << ProfileD >>, << ProfileD, ProfileP >> }

\* the XrActionStateFloat a caller gets back when nothing is stored in it
\* (runtime.cpp 1653-1664)
NoState == [isActive |-> FALSE, currentState |-> 0]

\* no action entry point was called yet
NoQuery ==
    [n |-> 0, call |-> "none", session |-> 0, action |-> 0, subaction |-> 0,
     order |-> << >>, result |-> "NONE"]

\* the action and binding tables of a client that was just loaded
NoInput ==
    [g_actions |-> EmptyMap,
     g_bindings |-> EmptyMap,
     g_suggested_profiles |-> << >>,
     g_current_interaction_profile |-> 0,
     interaction_profiles_ |-> << >>,   \* ServiceConnection: the driver_'s list
     available |-> { },                 \* the components the driver has
     state |-> NoState,                 \* *state of the last query
     last |-> NoQuery,                  \* history: the call just made
     suggested |-> << >>]               \* history: the profiles suggested

\* the driver libraries of the drivers folder
Drivers == { 1, 2 }

\* the slots of OxDriverCallbacks the loader reads when loading and unloading
Slots == { "initialize", "shutdown", "is_device_connected", "update_view_pose" }

\* no call of the loader was made yet
NoLoad ==
    [n |-> 0, call |-> "none", library |-> 0, registered |-> FALSE,
     initialize |-> 0, shutdown |-> 0, result |-> FALSE]

\* the client processes
Peers == { 1, 2 }

\* no client process has connected; pc is where a process is in Connect() /
\* Disconnect(), current the process at the other end of the control channel
NoPeers == [pc |-> [p \in Peers |-> "away"], current |-> 0]

\* a DriverLoader as its constructor leaves it; a slot of callbacks_ holds
\* the library whose function it points to, 0 when null
NoDriver ==
    [driver_handle_ |-> 0,
     callbacks_ |-> [s \in Slots |-> 0],
     loaded_ |-> FALSE,
     loads |-> 0,                       \* history: calls of LoadDriver
     open |-> { },                      \* history: libraries whose handle is held
     initialized |-> { },               \* history: initialize() succeeded in the
                                        \* load of the library made last
     shut |-> { },                      \* history: shutdown() called since then
     last |-> NoLoad]                   \* history: the call just made

\* the fields of a FrameTexture besides ready; pixel_data in two halves
TextureFields == { "width", "height", "format", "data_size", "pixels1", "pixels2" }

\* a FrameTexture in the zero-initialised region; a field holds the number of
\* the submit that stored it
ZeroTexture == [f \in TextureFields \cup { "ready" } |-> 0]

\* the texture block of an eye before any frame was submitted
NoTexture ==
    [block |-> ZeroTexture,
     writer |-> [pc |-> "idle", submit |-> 0],   \* xrEndFrame in the client
     reader |-> [pc |-> "ready", k |-> 0, copy |-> ZeroTexture],
     forwarded |-> 0]                   \* history: blocks the reader took

\* the runtime after xrCreateInstance gave instance 1 and xrCreateSession
\* gave session 2
WithSession ==
    [NoRuntime EXCEPT
        !.g_instances = { 1 },
        !.g_sessions = [x \in { 2 } |-> 1],
        !.connected_ = TRUE,
        !.shared_data_ = "mapped",
        !.channel = "open",
        !.next_handle_ = 3,
        !.active_session_handle = 2,
        !.out = [NoOutput EXCEPT !.session = 2],
        !.last = [n |-> 0, call |-> "xrCreateSession", arg |-> 1,
                  result |-> "XR_SUCCESS", failed |-> FALSE]]

\* the application threads
AppThreads == 1 .. MaxAppThreads

\* the versions a running service may have stored in protocol_version
Versions == { PROTOCOL_VERSION, PROTOCOL_VERSION + 1 }

\* ServiceConnection after construction, next to a service of version v
NoConnection(v) ==
    [protocol_version |-> v,    \* SharedData::protocol_version
     shared_data_ |-> FALSE,    \* shared_data_ != nullptr
     connected_ |-> FALSE,
     sock |-> "none",           \* control_.sock_: "none" is -1
     listening |-> TRUE,        \* the service has not accepted a client yet
     broken |-> FALSE,          \* the service closed its end
     send_mutex_ |-> 0,         \* the thread that holds it, 0 if free
     g_instance_mutex |-> 0,
     sequence_ |-> 0,
     requests |-> 0,            \* requests written, not yet read by the service
     responses |-> 0,           \* responses written, not yet read by the client
     outstanding |-> 0,         \* history: requests neither answered nor failed
     sent |-> 0,                \* history: requests written to the channel
     channel_used |-> FALSE]    \* history: a socket connect was made

\* an application thread outside every client call
NoCall ==
    [call |-> "none", todo |-> << >>, result |-> "NONE", time |-> 0,
     concurrent |-> FALSE]

\* the service after construction and Initialize(), scheduled as a says,
\* and the client next to a service of version v
Boot(a, v) ==
    /\ client = NoConnection(v)
    /\ driver_ = NoDriver
    /\ peers = NoPeers
    /\ app = [th \in AppThreads |-> NoCall]
    /\ atomic = a
    /\ ctl = "accept"
    /\ hdr = NoHeader
    /\ payload = EmptyPayload
    /\ wire_out = << >>
    /\ client_connected = 0
    /\ session_state = "IDLE"
    /\ active_session_handle = 0
    /\ next_handle_ = 1
    /\ allocated_handles_ = << >>
    /\ pending_events_ = << >>
    /\ now = 0
    /\ task = [t \in Tasks |-> Frame("off", "NONE")]
    /\ nsess = 0
    /\ nwrites = 0
    /\ npushed = 0
    /\ ndelivered = 0
    /\ delivered_timestamp = 0
    /\ issued = << >>
    /\ held = 0
    /\ pre = NoSnapshot
    /\ scenario = [kind |-> "none", progress |-> 0]
    /\ frame_counter_ = 0
    /\ frame_state = ZeroFrameState
    /\ producer = [pc |-> "sleep", frame_id |-> 0, predicted_time |-> 0]
    /\ reader = NoRead
    /\ seen = [frame_id |-> 0, predicted_display_time |-> 0]

\* ... with the empty tables of a client that was just loaded
StartWith(a, v) ==
    /\ Boot(a, v)
    /\ paths = NoPaths(DefaultHash)
    /\ rt = NoRuntime
    /\ input = NoInput
    /\ texture = NoTexture

\* ... where the service is of the client's own version
Start(a) == StartWith(a, PROTOCOL_VERSION)

shared == << client_connected, session_state, active_session_handle >>
handles == << next_handle_, allocated_handles_, issued, held >>
events == << pending_events_, npushed, ndelivered, delivered_timestamp >>
request == << hdr, payload, pre, scenario >>

\* task t is in the middle of a handler (control task) or of a transition it
\* has decided to make (any task)
Busy(t) ==
    \/ task[t].pc \in { "store", "handle", "clock", "push" }
    \/ t = 0 /\ ctl \in { "dispatch", "create_ready", "create_respond",
                          "destroy_idle", "destroy_respond" }

\* no other task is in the middle of anything
Alone(t) == \A u \in Tasks \ {t} : ~Busy(u)

\* task t may take a step: always when the tasks interleave freely; under
\* run-to-completion scheduling only while no other task is in the middle.
\* The control task and the detached threads do not touch the frame state.
Scheduled(t) ==
    /\ atomic => Alone(t)
    /\ atomic' = atomic
    /\ UNCHANGED << frames, clients >>

\* the handler returns to MessageLoop, which goes to c; the header is dead
Return(c) ==
    /\ ctl' = c
    /\ hdr' = NoHeader
    /\ pre' = NoSnapshot

(* ------------------------- control channel ----------------------------- *)
\* ControlChannel::Send as the service uses it: one frame on the wire, the
\* payload bytes following the header only when payload_size > 0
Send(header, body) ==
    Append(wire_out, [type |-> header.type, sequence |-> header.sequence,
                      payload_size |-> header.payload_size,
                      body |-> IF header.payload_size > 0 THEN body ELSE 0])

\* the response header every handler builds
ResponseHeader(req, n) == MessageHeader("RESPONSE", req.sequence, n)

\* ControlChannel::Receive: the vector is resized and overwritten only when the
\* header announces payload bytes; otherwise it keeps what it held
ReceivedPayload(old, p) == IF p.size > 0 THEN p ELSE old

\* history: the session request that later polling follows. "create": a
\* CreateSession read while the service is Idle with an empty queue; "exit": a
\* RequestExitSession read while a session is running
ScenarioAfter(t) ==
    CASE t = "CREATE_SESSION" ->
            IF session_state = "IDLE" /\ pending_events_ = << >>
            THEN [kind |-> "create", progress |-> 0]
            ELSE [kind |-> "none", progress |-> 0]
      [] t = "REQUEST_EXIT_SESSION" ->
            IF session_state \in Running /\ active_session_handle # 0
            THEN [kind |-> "exit", progress |-> 0]
            ELSE [kind |-> "none", progress |-> 0]
      [] t = "DESTROY_SESSION" -> [kind |-> "none", progress |-> 0]
      [] OTHER -> scenario

\* history: progress of the polling that follows the scenario's request when
\* the events in sent are delivered. "create": the number of events delivered;
\* "exit": 1 once a Stopping event was delivered, 2 once an Idle event followed
ProgressAfter(sc, sent) ==
    IF sent = << >> THEN sc
    ELSE CASE sc.kind = "create" -> [sc EXCEPT !.progress = @ + 1]
           [] sc.kind = "exit" ->
                IF sc.progress = 0 /\ sent[1].state = "STOPPING"
                THEN [sc EXCEPT !.progress = 1]
                ELSE IF sc.progress = 1 /\ sent[1].state = "IDLE"
                THEN [sc EXCEPT !.progress = 2]
                ELSE sc
           [] OTHER -> sc

(* --------------------------- OxService::Run ---------------------------- *)
\* control_.Accept() returns true; client_connected.store(1); MessageLoop()
\* starts with a fresh payload vector.
Accept ==
    /\ ctl = "accept"
    /\ Scheduled(0)
    /\ ctl' = "recv"
    /\ client_connected' = 1
    /\ payload' = EmptyPayload
    /\ hdr' = NoHeader
    /\ wire_out' = << >>
    /\ held' = Len(issued)
    /\ UNCHANGED << session_state, active_session_handle, next_handle_,
                    allocated_handles_, issued, events, now,
                    task, nsess, nwrites, pre, scenario >>

\* MessageLoop returned: client_connected.store(0); Close(); CreateServer()
CloseAndRecreate ==
    /\ ctl = "closing"
    /\ Scheduled(0)
    /\ ctl' = "accept"
    /\ client_connected' = 0
    /\ wire_out' = << >>
    /\ UNCHANGED << hdr, payload, session_state,
                    active_session_handle, handles, events, now, task,
                    nsess, nwrites, pre, scenario >>

\* ... or CreateServer() fails: the loop breaks and the service goes down
RecreateFails ==
    /\ ctl = "closing"
    /\ Scheduled(0)
    /\ ctl' = "down"
    /\ client_connected' = 0
    /\ wire_out' = << >>
    /\ UNCHANGED << hdr, payload, session_state,
                    active_session_handle, handles, events, now, task,
                    nsess, nwrites, pre, scenario >>

(* ------------------------ OxService::MessageLoop ----------------------- *)
\* control_.Receive succeeds with a request of type t, sequence s, payload p
Receive(t, s, p) ==
    /\ ctl = "recv"
    /\ Scheduled(0)
    /\ t \in { "CREATE_SESSION", "ALLOCATE_HANDLE" } => next_handle_ <= MaxHandles
    /\ hdr' = MessageHeader(t, s, p.size)
    /\ payload' = ReceivedPayload(payload, p)
    /\ wire_out' = << >>
    /\ pre' = [handle |-> active_session_handle, pushed |-> << >>]
    /\ scenario' = ScenarioAfter(t)
    /\ ctl' = "dispatch"
    /\ UNCHANGED << shared, handles, events, now, task, nsess, nwrites >>

\* control_.Receive fails (peer closed, partial read, OS error)
ReceiveFails ==
    /\ ctl = "recv"
    /\ Scheduled(0)
    /\ ctl' = "closing"
    /\ wire_out' = << >>
    /\ UNCHANGED << request, shared, handles, events, now, task,
                    nsess, nwrites >>

\* a handler that only sends one response with an n-byte payload
Respond(t, n) ==
    /\ ctl = "dispatch"
    /\ Scheduled(0)
    /\ hdr.type = t
    /\ wire_out' = Send(ResponseHeader(hdr, n), 0)
    /\ Return("recv")
    /\ UNCHANGED << payload, scenario, shared, handles, events, now, task, nsess, nwrites >>

HandleConnect == Respond("CONNECT", 0)

HandleGetRuntimeProperties ==
    Respond("GET_RUNTIME_PROPERTIES", SizeofRuntimePropertiesResponse)

HandleGetSystemProperties ==
    Respond("GET_SYSTEM_PROPERTIES", SizeofSystemPropertiesResponse)

HandleGetViewConfigurations ==
    Respond("GET_VIEW_CONFIGURATIONS", SizeofViewConfigurationsResponse)

HandleGetInteractionProfiles ==
    Respond("GET_INTERACTION_PROFILES", SizeofInteractionProfilesResponse)

\* case DISCONNECT: return (nothing is sent)
HandleDisconnect ==
    /\ ctl = "dispatch"
    /\ Scheduled(0)
    /\ hdr.type = "DISCONNECT"
    /\ Return("closing")
    /\ UNCHANGED << payload, scenario, wire_out, shared, handles, events, now, task,
                    nsess, nwrites >>

\* the types the switch has a case for
Dispatched ==
    { "CONNECT", "DISCONNECT", "CREATE_SESSION", "DESTROY_SESSION",
      "ALLOCATE_HANDLE", "GET_NEXT_EVENT", "GET_RUNTIME_PROPERTIES",
      "GET_SYSTEM_PROPERTIES", "GET_VIEW_CONFIGURATIONS",
      "GET_INTERACTION_PROFILES", "GET_INPUT_COMPONENT_STATE" }

\* default: LOG_ERROR("Unknown message type"); break (nothing is sent)
HandleDefault ==
    /\ ctl = "dispatch"
    /\ Scheduled(0)
    /\ hdr.type \notin Dispatched
    /\ Return("recv")
    /\ UNCHANGED << payload, scenario, wire_out, shared, handles, events, now, task,
                    nsess, nwrites >>

(* ---------------------- handle allocation ------------------------------ *)
\* (the first value every time)
AllocatedValue_First(next) == 1

\* handle = next_handle_++ : the value returned ...
AllocatedValue(next) == next

\* (a counter that does not move)
NextAfterAllocate_Stuck(next) == next

\* ... and the counter afterwards
NextAfterAllocate(next) == next + 1

\* allocated_handles_[handle] = type
Recorded(table, h, type) ==
    [k \in DOMAIN table \cup {h} |-> IF k = h THEN type ELSE table[k]]

\* FreeHandle: allocated_handles_.erase(handle)
Erased(table, h) == [k \in DOMAIN table \ {h} |-> table[k]]

\* HandleAllocateHandle: a payload shorter than the request struct is logged and
\* dropped without a response; otherwise allocate and answer with the handle
HandleAllocateHandle ==
    /\ ctl = "dispatch"
    /\ Scheduled(0)
    /\ hdr.type = "ALLOCATE_HANDLE"
    /\ IF payload.size < SizeofAllocateHandleRequest
       THEN UNCHANGED << wire_out, handles >>
       ELSE LET h == AllocatedValue(next_handle_) IN
            /\ next_handle_' = NextAfterAllocate(next_handle_)
            /\ allocated_handles_' = Recorded(allocated_handles_, h, payload.data)
            /\ issued' = Append(issued, h)
            /\ held' = held
            /\ wire_out' = Send(ResponseHeader(hdr, SizeofAllocateHandleResponse), h)
    /\ Return("recv")
    /\ UNCHANGED << payload, scenario, shared, events, now, task, nsess, nwrites >>

\* HandleGetInputComponentState: same shape, the driver_'s answer is the payload
HandleGetInputComponentState ==
    /\ ctl = "dispatch"
    /\ Scheduled(0)
    /\ hdr.type = "GET_INPUT_COMPONENT_STATE"
    /\ IF payload.size < SizeofInputComponentStateRequest
       THEN UNCHANGED wire_out
       ELSE \E is_available \in {0, 1} :
              wire_out' = Send(ResponseHeader(hdr, SizeofInputComponentStateResponse),
                               is_available)
    /\ Return("recv")
    /\ UNCHANGED << payload, scenario, shared, handles, events, now, task, nsess, nwrites >>

(* ------------------------- event queue --------------------------------- *)
\* (the newest element instead)
Front_Back(q) == q[Len(q)]

\* pending_events_.front()
Front(q) == Head(q)

\* pending_events_.erase(pending_events_.begin())
EraseBegin(q) == Tail(q)

\* ServiceConnection::GetNextEvent: what the client takes from a response
ClientEvent(frame) ==
    IF frame.type = "RESPONSE" /\ frame.payload_size >= SizeofSessionStateEvent
    THEN << frame.body >> ELSE << >>

\* HandleGetNextEvent, under event_mutex_
HandleGetNextEvent ==
    /\ ctl = "dispatch"
    /\ Scheduled(0)
    /\ hdr.type = "GET_NEXT_EVENT"
    /\ IF pending_events_ # << >>
       THEN /\ wire_out' = Send(ResponseHeader(hdr, SizeofSessionStateEvent),
                                Front(pending_events_))
            /\ pending_events_' = EraseBegin(pending_events_)
       ELSE /\ wire_out' = Send(ResponseHeader(hdr, 0), 0)
            /\ UNCHANGED pending_events_
    /\ LET got == ClientEvent(wire_out'[Len(wire_out')]) IN
       /\ ndelivered' = ndelivered + Len(got)
       /\ delivered_timestamp' =
              IF got = << >> THEN delivered_timestamp ELSE got[1].timestamp
       /\ scenario' = ProgressAfter(scenario, got)
    /\ Return("recv")
    /\ UNCHANGED << payload, shared, handles, npushed, now, task,
                    nsess, nwrites >>

(* ------------------- TransitionSessionState ---------------------------- *)
\* the task leaves TransitionSessionState: the control task goes on with its
\* handler, a detached thread with its next delayed transition
FrameAfterReturn(t) ==
    IF t # 0 /\ task[t].target = "SYNCHRONIZED"
    THEN Frame("load", "FOCUSED")
    ELSE Frame("off", IF t = 0 THEN "NONE" ELSE "DONE")

CtlAfterReturn(t) ==
    IF t # 0 THEN ctl
    ELSE IF ctl = "create_ready" THEN "create_respond" ELSE "destroy_respond"

\* old_state = session_state.load(); if (old_state != new_state) ...
\* (a detached thread's sleep_for ends when it takes this step)
TSS_Load(t) ==
    /\ task[t].pc = "load"
    /\ Scheduled(t)
    /\ IF session_state # task[t].target
       THEN /\ task' = [task EXCEPT ![t].pc = "store"]
            /\ UNCHANGED ctl
       ELSE /\ task' = [task EXCEPT ![t] = FrameAfterReturn(t)]
            /\ ctl' = CtlAfterReturn(t)
    /\ wire_out' = << >>
    /\ UNCHANGED << request, shared, handles, events, now, nsess, nwrites >>

\* session_state.store(new_state)
TSS_Store(t) ==
    /\ task[t].pc = "store"
    /\ Scheduled(t)
    /\ session_state' = task[t].target
    /\ nwrites' = nwrites + 1
    /\ task' = [task EXCEPT ![t].pc = "handle",
                            ![t].event.state = task[t].target,
                            ![t].event.w = nwrites + 1]
    /\ wire_out' = << >>
    /\ UNCHANGED << ctl, request, client_connected,
                    active_session_handle, handles, events, now, nsess >>

\* event.session_handle = active_session_handle.load()
TSS_Handle(t) ==
    /\ task[t].pc = "handle"
    /\ Scheduled(t)
    /\ task' = [task EXCEPT ![t].pc = "clock",
                            ![t].event.session_handle = active_session_handle]
    /\ wire_out' = << >>
    /\ UNCHANGED << ctl, request, shared, handles, events, now,
                    nsess, nwrites >>

\* event.timestamp = steady_clock::now(): never less than the last value read
TSS_Clock(t, elapsed) ==
    /\ task[t].pc = "clock"
    /\ Scheduled(t)
    /\ now + elapsed <= MaxTime
    /\ now' = now + elapsed
    /\ task' = [task EXCEPT ![t].pc = "push", ![t].event.timestamp = now']
    /\ wire_out' = << >>
    /\ UNCHANGED << ctl, request, shared, handles, events, nsess, nwrites >>

\* lock event_mutex_; pending_events_.push_back(event)
TSS_Push(t) ==
    /\ task[t].pc = "push"
    /\ Scheduled(t)
    /\ pending_events_' =
           Append(pending_events_, [task[t].event EXCEPT !.n = npushed + 1])
    /\ npushed' = npushed + 1
    /\ pre' = IF t = 0 THEN [pre EXCEPT !.pushed = Append(@, task[t].event.state)]
               ELSE pre
    /\ task' = [task EXCEPT ![t] = FrameAfterReturn(t)]
    /\ ctl' = CtlAfterReturn(t)
    /\ wire_out' = << >>
    /\ UNCHANGED << hdr, payload, scenario, shared, handles,
                    ndelivered, delivered_timestamp, now, nsess, nwrites >>

(* --------------------- session handlers -------------------------------- *)
\* HandleCreateSession, up to the call of TransitionSessionState(READY)
HandleCreateSession ==
    /\ ctl = "dispatch"
    /\ Scheduled(0)
    /\ hdr.type = "CREATE_SESSION"
    /\ LET h == AllocatedValue(next_handle_) IN
       /\ next_handle_' = NextAfterAllocate(next_handle_)
       /\ allocated_handles_' = Recorded(allocated_handles_, h, HT_SESSION)
       /\ issued' = Append(issued, h)
       /\ held' = held
       /\ active_session_handle' = h
    /\ task' = [task EXCEPT ![0] = Frame("load", "READY")]
    /\ ctl' = "create_ready"
    /\ UNCHANGED << request, wire_out, client_connected, session_state, events,
                    now, nsess, nwrites >>

\* ... then the detached thread is started and the response carries the handle
CreateSessionRespond ==
    /\ ctl = "create_respond"
    /\ Scheduled(0)
    /\ nsess' = nsess + 1
    /\ task' = [task EXCEPT ![nsess + 1] = Frame("load", "SYNCHRONIZED")]
    /\ wire_out' = Send(ResponseHeader(hdr, SizeofAllocateHandleResponse),
                        issued[Len(issued)])
    /\ Return("recv")
    /\ UNCHANGED << payload, scenario, shared, handles, events, now, nwrites >>

\* HandleDestroySession, up to the call of TransitionSessionState(IDLE)
HandleDestroySession ==
    /\ ctl = "dispatch"
    /\ Scheduled(0)
    /\ hdr.type = "DESTROY_SESSION"
    /\ IF active_session_handle # 0
       THEN /\ allocated_handles_' = Erased(allocated_handles_, active_session_handle)
            /\ active_session_handle' = 0
       ELSE UNCHANGED << allocated_handles_, active_session_handle >>
    /\ task' = [task EXCEPT ![0] = Frame("load", "IDLE")]
    /\ ctl' = "destroy_idle"
    /\ UNCHANGED << request, wire_out, client_connected, session_state,
                    next_handle_, issued, held, events, now, nsess, nwrites >>

\* ... then the empty response
DestroySessionRespond ==
    /\ ctl = "destroy_respond"
    /\ Scheduled(0)
    /\ wire_out' = Send(ResponseHeader(hdr, 0), 0)
    /\ Return("recv")
    /\ UNCHANGED << payload, scenario, shared, handles, events, now, task, nsess, nwrites >>

(* ---------------------------- frame task ------------------------------- *)
FrameIdOfTick_Down(counter) == MaxFrames - counter

\* frame_id = frame_counter_++ : the value the tick stores
FrameIdOfTick(counter) == counter

\* the frame task wakes: frame_id = frame_counter_++; frame.frame_id.store
P_FrameId ==
    /\ producer.pc = "sleep"
    /\ frame_counter_ < MaxFrames
    /\ frame_counter_' = frame_counter_ + 1
    /\ frame_state' = [frame_state EXCEPT !.frame_id = FrameIdOfTick(frame_counter_)]
    /\ producer' = [producer EXCEPT !.pc = "time",
                                    !.frame_id = FrameIdOfTick(frame_counter_)]
    /\ UNCHANGED << service, clients, now, reader, seen >>

\* predicted_time = steady_clock::now(); frame.predicted_display_time.store
P_Time(elapsed) ==
    /\ producer.pc = "time"
    /\ now + elapsed <= MaxTime
    /\ now' = now + elapsed
    /\ frame_state' = [frame_state EXCEPT !.predicted_display_time = now']
    /\ producer' = [producer EXCEPT !.pc = "pose0", !.predicted_time = now']
    /\ UNCHANGED << service, clients, frame_counter_, reader, seen >>

\* the position after writing field f of view i (0-based, as in the code)
AfterWrite(f, i) ==
    CASE f = "pose" /\ i = 0 -> "pose1"
      [] f = "pose" /\ i = 1 -> "fov0"
      [] f = "fov" /\ i = 0 -> "fov1"
      [] f = "fov" /\ i = 1 -> "devices"

\* frame.views[i].pose = ... (plain stores)
P_Pose(i) ==
    /\ producer.pc = IF i = 0 THEN "pose0" ELSE "pose1"
    /\ frame_state' = [frame_state EXCEPT !.views[i + 1].pose = producer.frame_id]
    /\ producer' = [producer EXCEPT !.pc = AfterWrite("pose", i)]
    /\ UNCHANGED << service, clients, now, frame_counter_, reader, seen >>

\* frame.views[i].fov[0..3] = ... (plain stores)
P_Fov(i) ==
    /\ producer.pc = IF i = 0 THEN "fov0" ELSE "fov1"
    /\ frame_state' = [frame_state EXCEPT !.views[i + 1].fov = producer.frame_id]
    /\ producer' = [producer EXCEPT !.pc = AfterWrite("fov", i)]
    /\ UNCHANGED << service, clients, now, frame_counter_, reader, seen >>

\* the controller poses; UpdatePoseData returns and the task sleeps
P_Devices ==
    /\ producer.pc = "devices"
    /\ frame_state' = [frame_state EXCEPT !.devices = producer.frame_id]
    /\ producer' = [producer EXCEPT !.pc = "sleep"]
    /\ UNCHANGED << service, clients, now, frame_counter_, reader, seen >>

(* ------------------------ readers of the frame ------------------------- *)
\* a client thread reads frame_id before it copies the views
R_First ==
    /\ reader.pc = "idle"
    /\ reader' = [NoRead EXCEPT !.pc = "pose0", !.first = frame_state.frame_id]
    /\ seen' = [seen EXCEPT !.frame_id = frame_state.frame_id]
    /\ UNCHANGED << service, clients, now, frame_counter_, frame_state, producer >>

\* xrLocateViews: views[i].pose = view_data.pose.pose
R_Pose(i) ==
    /\ reader.pc = IF i = 0 THEN "pose0" ELSE "pose1"
    /\ reader' = [reader EXCEPT !.views[i + 1].pose = frame_state.views[i + 1].pose,
                                !.pc = IF i = 0 THEN "fov0" ELSE "fov1"]
    /\ UNCHANGED << service, clients, now, frame_counter_, frame_state, producer, seen >>

\* xrLocateViews: views[i].fov = view_data.fov[0..3]
R_Fov(i) ==
    /\ reader.pc = IF i = 0 THEN "fov0" ELSE "fov1"
    /\ reader' = [reader EXCEPT !.views[i + 1].fov = frame_state.views[i + 1].fov,
                                !.pc = IF i = 0 THEN "pose1" ELSE "second"]
    /\ UNCHANGED << service, clients, now, frame_counter_, frame_state, producer, seen >>

\* ... and reads frame_id again after the copy
R_Second ==
    /\ reader.pc = "second"
    /\ reader' = [reader EXCEPT !.pc = "done", !.second = frame_state.frame_id]
    /\ seen' = [seen EXCEPT !.frame_id = frame_state.frame_id]
    /\ UNCHANGED << service, clients, now, frame_counter_, frame_state, producer >>

\* the thread starts over
R_Again ==
    /\ reader.pc = "done"
    /\ reader' = [reader EXCEPT !.pc = "idle"]
    /\ UNCHANGED << service, clients, now, frame_counter_, frame_state, producer, seen >>

\* xrWaitFrame: predictedDisplayTime = predicted_display_time.load()
WaitFrame ==
    /\ seen' = [seen EXCEPT !.predicted_display_time =
                                 frame_state.predicted_display_time]
    /\ UNCHANGED << service, clients, now, frame_counter_, frame_state, producer, reader >>

(* ------------------------------ client --------------------------------- *)
MutexFree_Always(holder) == TRUE

\* std::lock_guard<std::mutex>: the lock is taken when nobody holds it
MutexFree(holder) == holder = 0

VersionAccepted_Any(v) == TRUE

\* ServiceConnection::Connect: version != PROTOCOL_VERSION returns false
VersionAccepted(v) == v = PROTOCOL_VERSION

WaitFrameLocks_Send == { "send_mutex_" }

\* the mutexes xrWaitFrame locks: none
WaitFrameLocks == { }

\* lock send_mutex_, Send, Receive, and the lock_guard unlocks on return
RequestOps == << "lock", "send", "receive", "unlock" >>

\* QueryStaticMetadata: four requests under one lock of send_mutex_
MetadataOps ==
    << "lock", "send", "receive", "send", "receive", "send", "receive",
       "send", "receive", "unlock" >>

\* Connect after the version check: control_.Connect, SendRequest(CONNECT),
\* QueryStaticMetadata, connected_ = true
ConnectOps == << "socket" >> \o RequestOps \o MetadataOps \o << "connected" >>

\* xrCreateInstance after Connect: lock g_instance_mutex, AllocateHandle
InstanceOps == << "instance_lock" >> \o RequestOps \o << "return" >>

\* what a call returns when a request of it fails
ResultOnFailure(call) ==
    IF call = "xrCreateInstance" THEN "XR_ERROR_RUNTIME_FAILURE"
    ELSE "XR_EVENT_UNAVAILABLE"

\* thread th is idle and may enter the client
Idle(th) == app[th].todo = << >>

\* thread th is about to execute op
At(th, op) == app[th].todo # << >> /\ Head(app[th].todo) = op

\* the mutexes after the lock_guards of thread th went out of scope
Released(c, th) ==
    [c EXCEPT !.send_mutex_ = IF @ = th THEN 0 ELSE @,
              !.g_instance_mutex = IF @ = th THEN 0 ELSE @]

\* thread th goes on with its call
Advance(th) == app' = [app EXCEPT ![th].todo = Tail(@)]

\* the call of thread th returns r
Returned(th, r) == app' = [app EXCEPT ![th].todo = << >>, ![th].result = r]

\* client actions leave the service and the frame task alone
ClientOnly == UNCHANGED << service, now, frames, tables, extras, host >>

\* xrCreateInstance: Connect() up to the version check
XrCreateInstance(th) ==
    /\ Idle(th)
    /\ IF client.connected_
       THEN /\ app' = [app EXCEPT ![th] =
                           [NoCall EXCEPT !.call = "xrCreateInstance",
                                          !.todo = InstanceOps]]
            /\ UNCHANGED client
       ELSE /\ client' = [client EXCEPT !.shared_data_ = TRUE]
            /\ IF VersionAccepted(client.protocol_version)
               THEN app' = [app EXCEPT ![th] =
                                [NoCall EXCEPT !.call = "xrCreateInstance",
                                               !.todo = ConnectOps \o InstanceOps]]
               ELSE app' = [app EXCEPT ![th] =
                                [NoCall EXCEPT !.call = "xrCreateInstance",
                                               !.result = "XR_ERROR_RUNTIME_FAILURE"]]
    /\ ClientOnly

\* xrPollEvent: GetNextEvent
XrPollEvent(th) ==
    /\ Idle(th)
    /\ app' = [app EXCEPT ![th] =
                   [NoCall EXCEPT !.call = "xrPollEvent",
                                  !.todo = RequestOps \o << "return" >>]]
    /\ UNCHANGED client
    /\ ClientOnly

\* xrWaitFrame: predicted_display_time.load(), 0 without shared memory
XrWaitFrame(th) ==
    /\ Idle(th)
    /\ \A m \in WaitFrameLocks : MutexFree(client[m])
    /\ app' = [app EXCEPT ![th] =
                   [NoCall EXCEPT
                       !.call = "xrWaitFrame",
                       !.result = "XR_SUCCESS",
                       !.time = IF client.shared_data_
                                THEN frame_state.predicted_display_time ELSE 0,
                       !.concurrent =
                           \E other \in AppThreads \ {th} : At(other, "receive")]]
    /\ UNCHANGED client
    /\ ClientOnly

\* control_.Connect: succeeds while the service listens
ClientSocket(th) ==
    /\ At(th, "socket")
    /\ IF client.listening
       THEN /\ client' = [client EXCEPT !.sock = "open", !.listening = FALSE,
                                        !.channel_used = TRUE]
            /\ Advance(th)
       ELSE /\ client' = [client EXCEPT !.sock = "none", !.channel_used = TRUE]
            /\ Returned(th, ResultOnFailure(app[th].call))
    /\ ClientOnly

\* std::lock_guard<std::mutex> lock(send_mutex_)
ClientLock(th) ==
    /\ At(th, "lock")
    /\ MutexFree(client.send_mutex_)
    /\ client' = [client EXCEPT !.send_mutex_ = th]
    /\ Advance(th)
    /\ ClientOnly

\* header.sequence = sequence_++; control_.Send(header, payload)
ClientSend(th) ==
    /\ At(th, "send")
    /\ client.sequence_ < MaxRequests
    /\ IF client.sock = "open" /\ ~client.broken
       THEN /\ client' = [client EXCEPT !.sequence_ = @ + 1,
                                        !.requests = @ + 1,
                                        !.outstanding = @ + 1,
                                        !.sent = @ + 1]
            /\ Advance(th)
       ELSE /\ client' = Released([client EXCEPT !.sequence_ = @ + 1], th)
            /\ Returned(th, ResultOnFailure(app[th].call))
    /\ ClientOnly

\* control_.Receive(response, response_payload): blocks for the response
ClientReceive(th) ==
    /\ At(th, "receive")
    /\ client.responses > 0
    /\ client' = [client EXCEPT !.responses = @ - 1, !.outstanding = @ - 1]
    /\ Advance(th)
    /\ ClientOnly

\* ... and fails when the connection is gone
ClientReceiveFails(th) ==
    /\ At(th, "receive")
    /\ client.responses = 0
    /\ client.broken \/ client.sock = "none"
    /\ client' = Released([client EXCEPT !.outstanding = @ - 1], th)
    /\ Returned(th, ResultOnFailure(app[th].call))
    /\ ClientOnly

\* the lock_guard of send_mutex_ goes out of scope
ClientUnlock(th) ==
    /\ At(th, "unlock")
    /\ client' = [client EXCEPT !.send_mutex_ = IF @ = th THEN 0 ELSE @]
    /\ Advance(th)
    /\ ClientOnly

\* connected_ = true at the end of Connect
ClientConnected(th) ==
    /\ At(th, "connected")
    /\ client' = [client EXCEPT !.connected_ = TRUE]
    /\ Advance(th)
    /\ ClientOnly

\* std::lock_guard<std::mutex> lock(g_instance_mutex)
InstanceLock(th) ==
    /\ At(th, "instance_lock")
    /\ MutexFree(client.g_instance_mutex)
    /\ client' = [client EXCEPT !.g_instance_mutex = th]
    /\ Advance(th)
    /\ ClientOnly

\* the call returns XR_SUCCESS
ClientReturn(th) ==
    /\ At(th, "return")
    /\ client' = Released(client, th)
    /\ Returned(th, "XR_SUCCESS")
    /\ ClientOnly

\* the message loop of the service answers the request it received
ServiceResponds ==
    /\ client.requests > 0
    /\ ~client.broken
    /\ client' = [client EXCEPT !.requests = @ - 1, !.responses = @ + 1]
    /\ UNCHANGED app
    /\ ClientOnly

\* the service closes its end of the connection
ServiceCloses ==
    /\ client.sock = "open"
    /\ ~client.broken
    /\ client' = [client EXCEPT !.broken = TRUE, !.requests = 0]
    /\ UNCHANGED app
    /\ ClientOnly

(* ------------------------------ paths ---------------------------------- *)
\* m[k] = v of a std::unordered_map
Assigned(m, k, v) == [x \in DOMAIN m \cup {k} |-> IF x = k THEN v ELSE m[x]]

\* safe_copy_string: at most dest_size - 1 characters, then the terminator
SafeCopyString(dest_size, src) ==
    IF dest_size = 0 THEN << >>
    ELSE SubSeq(src, 1, IF Len(src) < dest_size - 1 THEN Len(src) ELSE dest_size - 1)

\* the token xrStringToPath stores in *path
PathOf(t, s) ==
    IF s \in DOMAIN t.g_string_to_path THEN t.g_string_to_path[s] ELSE t.hash[s]

\* the path tables after xrStringToPath(instance, s, &path)
Interned(t, s) ==
    [t EXCEPT
        !.g_path_to_string =
            IF s \in DOMAIN t.g_string_to_path THEN @
            ELSE Assigned(@, t.hash[s], s),
        !.g_string_to_path =
            IF s \in DOMAIN @ THEN @ ELSE Assigned(@, s, t.hash[s]),
        !.returned = Assigned(@, s, PathOf(t, s))]

\* xrStringToPath(instance, s, &path)
XrStringToPath(s) ==
    /\ paths' = Interned(paths, s)
    /\ UNCHANGED << service, now, frames, client, app, rt, extras, host >>

\* the text xrPathToString looks up for path p
StringOf(t, p) ==
    IF p \in DOMAIN t.g_path_to_string THEN t.g_path_to_string[p] ELSE UnknownPath

\* what xrPathToString(instance, p, capacity, &count, buffer) stores
PathToString(t, p, capacity) ==
    [path |-> p,
     count |-> Len(StringOf(t, p)) + 1,
     buffer |-> IF capacity > 0 THEN SafeCopyString(capacity, StringOf(t, p))
                ELSE << >>]

\* xrPathToString called with a buffer of the size its first call reported
XrPathToString(p) ==
    /\ paths' = [paths EXCEPT
                     !.out = PathToString(paths, p, Len(StringOf(paths, p)) + 1)]
    /\ UNCHANGED << service, now, frames, client, app, rt, extras, host >>

(* ------------------------- client entry points ------------------------- *)
\* the handles an application passes, XR_NULL_HANDLE among them
ClientHandles == 0 .. MaxClientHandles

\* the extensions of a build with OX_OPENGL: XR_KHR_opengl_enable and
\* XR_HTCX_vive_tracker_interaction
ExtensionCount == 2

Found_Always(table, h) == TRUE

\* table.find(h) != table.end()
Found(table, h) == h \in table

\* m.erase(k)
Without(m, k) == [x \in DOMAIN m \ {k} |-> m[x]]

\* the entry point call returned result r and stored out in the caller's
\* variables; failed: a control request of it failed
Result(t, call, arg, r, failed, out) ==
    [t EXCEPT !.out = out,
              !.last = [n |-> 1 - t.last.n, call |-> call, arg |-> arg,
                        result |-> r, failed |-> failed]]

\* the entry points of this section leave everything else alone
RuntimeOnly ==
    UNCHANGED << service, now, frames, client, app, paths, extras, host >>

\* a control request sent now is answered
Usable(t) == t.channel = "open" /\ t.alive

\* the service can give one more handle
HandleLeft(t) == Usable(t) => t.next_handle_ <= MaxClientHandles

\* ServiceConnection::Connect as xrCreateInstance sees it
Connected(t) ==
    IF t.connected_ THEN t
    ELSE IF t.alive
         THEN [t EXCEPT !.connected_ = TRUE, !.shared_data_ = "mapped",
                        !.channel = "open"]
         ELSE t

\* ServiceConnection::Disconnect
Disconnected(t) ==
    IF ~t.connected_ THEN t
    ELSE [t EXCEPT !.connected_ = FALSE, !.channel = "none",
                   !.shared_data_ = IF @ = "null" THEN "null" ELSE "dangling"]

\* xrCreateInstance(createInfo, instance)
CreateInstance(info, out) ==
    /\ HandleLeft(Connected(rt))
    /\ rt' =
         IF ~info \/ ~out
         THEN Result(rt, "xrCreateInstance", 0, "XR_ERROR_VALIDATION_FAILURE",
                     FALSE, NoOutput)
         ELSE LET c == Connected(rt) IN
              IF ~c.connected_ \/ ~Usable(c)
              THEN Result(c, "xrCreateInstance", 0, "XR_ERROR_RUNTIME_FAILURE",
                          TRUE, NoOutput)
              ELSE Result([c EXCEPT !.next_handle_ = @ + 1,
                                    !.g_instances = @ \cup { c.next_handle_ },
                                    !.destroyed = @ \ { c.next_handle_ }],
                          "xrCreateInstance", c.next_handle_, "XR_SUCCESS", FALSE,
                          [NoOutput EXCEPT !.instance = c.next_handle_])
    /\ RuntimeOnly

\* the sessions created under instance i
DerivedFrom(t, i) == { x \in DOMAIN t.g_sessions : t.g_sessions[x] = i }

\* xrDestroyInstance(instance)
DestroyInstance(h) ==
    /\ rt' =
         IF ~Found(rt.g_instances, h)
         THEN Result(rt, "xrDestroyInstance", h, "XR_ERROR_HANDLE_INVALID",
                     FALSE, NoOutput)
         ELSE LET erased == [rt EXCEPT !.g_instances = @ \ {h},
                                       !.destroyed = @ \cup {h},
                                       !.dead = @ \cup DerivedFrom(rt, h)]
                  after == IF erased.g_instances = { } THEN Disconnected(erased)
                           ELSE erased
              IN  Result(after, "xrDestroyInstance", h, "XR_SUCCESS",
                         erased.g_instances = { } /\ rt.connected_ /\ ~Usable(rt),
                         NoOutput)
    /\ RuntimeOnly

\* xrGetInstanceProperties(instance, instanceProperties)
GetInstanceProperties(h) ==
    /\ rt' = Result(rt, "xrGetInstanceProperties", h,
                    IF Found(rt.g_instances, h) THEN "XR_SUCCESS"
                    ELSE "XR_ERROR_HANDLE_INVALID", FALSE, NoOutput)
    /\ RuntimeOnly

\* xrEnumerateInstanceExtensionProperties(nullptr, capacity, count, properties)
EnumerateInstanceExtensionProperties(capacity, count, properties) ==
    /\ rt' = Result(rt, "xrEnumerateInstanceExtensionProperties", 0,
                    IF capacity = 0 THEN "XR_SUCCESS"
                    ELSE IF ~properties THEN "XR_ERROR_VALIDATION_FAILURE"
                    ELSE "XR_SUCCESS",
                    FALSE,
                    IF count THEN [NoOutput EXCEPT !.count = ExtensionCount]
                    ELSE NoOutput)
    /\ RuntimeOnly

\* the service handles CREATE_SESSION: a new handle in active_session_handle
SessionCreated(t) ==
    IF Usable(t)
    THEN [t EXCEPT !.next_handle_ = @ + 1, !.active_session_handle = t.next_handle_]
    ELSE t

\* xrCreateSession(instance, createInfo, session); value is what is read
\* through shared_data_, any value when the mapping is gone
CreateSession(i, info, value) ==
    /\ i \in rt.g_instances \cup {0}
    /\ HandleLeft(rt)
    /\ LET c == SessionCreated(rt) IN
       /\ c.shared_data_ # "dangling" => value = c.active_session_handle
       /\ rt' =
            IF ~info
            THEN Result(rt, "xrCreateSession", i, "XR_ERROR_VALIDATION_FAILURE",
                        FALSE, NoOutput)
            ELSE IF c.shared_data_ = "null" \/ value = 0
            THEN Result(c, "xrCreateSession", i, "XR_ERROR_RUNTIME_FAILURE",
                        ~Usable(rt), NoOutput)
            ELSE Result([c EXCEPT !.g_sessions = Assigned(@, value, i),
                                  !.dead = @ \ {value}],
                        "xrCreateSession", i, "XR_SUCCESS", ~Usable(rt),
                        [NoOutput EXCEPT !.session = value])
    /\ RuntimeOnly

\* xrDestroySession(session)
DestroySession(h) ==
    /\ rt' = Result([rt EXCEPT !.g_sessions = Without(@, h),
                               !.active_session_handle =
                                   IF Usable(rt) THEN 0 ELSE @],
                    "xrDestroySession", h, "XR_SUCCESS", ~Usable(rt), NoOutput)
    /\ RuntimeOnly

\* xrBeginSession(session, beginInfo)
BeginSession(h) ==
    /\ rt' = Result(rt, "xrBeginSession", h, "XR_SUCCESS", FALSE, NoOutput)
    /\ RuntimeOnly

\* xrPollEvent(instance, eventData): GetNextEvent answers while the service
\* is there (the events themselves are in the service model)
PollEvent ==
    /\ rt' = IF Usable(rt)
             THEN Result(rt, "xrPollEvent", 0, "XR_SUCCESS", FALSE, NoOutput)
             ELSE Result(rt, "xrPollEvent", 0, "XR_EVENT_UNAVAILABLE", TRUE, NoOutput)
    /\ RuntimeOnly

\* the service process ends
ServiceDies ==
    /\ rt.alive
    /\ rt' = [rt EXCEPT !.alive = FALSE,
                        !.channel = IF @ = "open" THEN "broken" ELSE @]
    /\ RuntimeOnly

(* --------------------------- action state ------------------------------ *)
\* the entry points of this section leave everything else alone
InputOnly ==
    UNCHANGED << service, now, frames, client, app, rt, texture, host >>

\* the action entry point call was made with these arguments and returned r
Called(t, call, session, action, subaction, order, r) ==
    [t EXCEPT !.last = [n |-> 1 - t.last.n, call |-> call, session |-> session,
                        action |-> action, subaction |-> subaction,
                        order |-> order, result |-> r]]

\* std::string::find(c) != npos, for the one-letter names of this model
Contains(s, c) == \E k \in DOMAIN s : s[k] = c

\* std::string::find(c)
Position(s, c) == CHOOSE k \in DOMAIN s : s[k] = c /\ \A j \in 1 .. k - 1 : s[j] # c

\* std::find(v.begin(), v.end(), x) != v.end()
Holds(v, x) == \E k \in DOMAIN v : v[k] = x

\* v.push_back(x) unless v holds x
Added(v, x) == IF Holds(v, x) THEN v ELSE Append(v, x)

\* the subaction path xrSuggestInteractionProfileBindings stores for a
\* binding of action
SubactionOf(t, pt, action, binding) ==
    IF action \in DOMAIN t.g_actions
           /\ t.g_actions[action].subaction_paths # << >>
    THEN LET path_str == SafeCopyString(256, StringOf(pt, binding))
             subaction_paths == t.g_actions[action].subaction_paths
         IN  IF Contains(path_str, "l") THEN subaction_paths[1]
             ELSE IF Contains(path_str, "r")
                  THEN IF Len(subaction_paths) > 1 THEN subaction_paths[2]
                       ELSE subaction_paths[1]
                  ELSE 0
    ELSE 0

\* xrSuggestInteractionProfileBindings(instance, suggestedBindings) with one
\* suggested binding
XrSuggestInteractionProfileBindings(profile, action, binding) ==
    /\ Len(input.suggested) < MaxSuggestions
    /\ LET profile_str == SafeCopyString(256, StringOf(paths, profile))
           subaction_path == SubactionOf(input, paths, action, binding)
           t == [input EXCEPT
                    !.g_suggested_profiles = Added(@, profile_str),
                    !.g_bindings =
                        IF binding \in DOMAIN @
                        THEN [@ EXCEPT ![binding] =
                                 [action |-> action,
                                  subaction_path |-> subaction_path,
                                  profiles |-> Added(@.profiles, profile)]]
                        ELSE Assigned(@, binding,
                                 [action |-> action,
                                  subaction_path |-> subaction_path,
                                  profiles |-> << profile >>]),
                    !.suggested = Append(@, profile)]
       IN  input' = Called(t, "xrSuggestInteractionProfileBindings", 0, action,
                           0, << binding >>, "XR_SUCCESS")
    /\ UNCHANGED paths
    /\ InputOnly

First_Last(S) == CHOOSE k \in S : \A j \in S : j <= k

\* the entry a loop reaches first among those of S
First(S) == CHOOSE k \in S : \A j \in S : k <= j

\* the suggested profiles the driver lists too: the inner loop of
\* xrAttachSessionActionSets stops at profile_count and at 8
Matching(suggested, driver) ==
    { k \in DOMAIN suggested :
        \E i \in DOMAIN driver : i <= 8 /\ driver[i] = suggested[k] }

\* the profile strings xrAttachSessionActionSets would activate: none, or one
Selected(t) ==
    LET hits == Matching(t.g_suggested_profiles, t.interaction_profiles_)
    IN  IF hits # { } THEN { t.g_suggested_profiles[First(hits)] }
        ELSE IF Len(t.interaction_profiles_) > 0
             THEN { t.interaction_profiles_[1] }
             ELSE { }

\* xrAttachSessionActionSets(session, attachInfo)
XrAttachSessionActionSets(session) ==
    /\ IF session \in DOMAIN rt.g_sessions /\ Selected(input) # { }
       THEN LET profile == CHOOSE x \in Selected(input) : TRUE IN
            /\ paths' = Interned(paths, profile)
            /\ input' = Called([input EXCEPT !.g_current_interaction_profile =
                                    PathOf(paths, profile)],
                               "xrAttachSessionActionSets", session, 0, 0,
                               << >>, "XR_SUCCESS")
       ELSE /\ UNCHANGED paths
            /\ input' = Called(input, "xrAttachSessionActionSets", session, 0,
                               0, << >>, "XR_SUCCESS")
    /\ InputOnly

\* IsBindingMatch(binding_data, action, subaction_path)
IsBindingMatch(t, binding_data, action, subaction_path) ==
    /\ binding_data.action = action
    /\ ~ (subaction_path # 0 /\ binding_data.subaction_path # 0
              /\ binding_data.subaction_path # subaction_path)
    /\ t.g_current_interaction_profile # 0
           => Holds(binding_data.profiles, t.g_current_interaction_profile)

\* ExtractUserPath(full_path)
ExtractUserPath(full_path) ==
    IF Contains(full_path, "i")
    THEN SubSeq(full_path, 1, Position(full_path, "i") - 1)
    ELSE full_path

\* ExtractComponentPath(full_path), no path of this model holding /output/
ExtractComponentPath(full_path) ==
    IF Contains(full_path, "i")
    THEN SubSeq(full_path, Position(full_path, "i"), Len(full_path))
    ELSE full_path

\* the value the driver has for a component of the device at user_path
DriverValue(user_path) == IF user_path = LeftHand THEN 1 ELSE 2

\* DriverLoader::GetInputStateFloat: 1 when the callback answers
\* OX_COMPONENT_AVAILABLE and stores its value, 0 otherwise
DriverInputState(available, user_path, component_path) ==
    IF << user_path, component_path >> \in available
    THEN [is_available |-> 1, value |-> DriverValue(user_path)]
    ELSE [is_available |-> 0, value |-> 0]

\* the InputStateFloatResponse the service sends for an InputStateRequest
InputStateResponse(available, user_path, component_path) ==
    DriverInputState(available, user_path, component_path)

\* ServiceConnection::GetInputState: true and out_value = response.value
\* when a RESPONSE of the full size arrived
GetInputState(c, available, user_path, component_path, value) ==
    IF Usable(c)
    THEN [result |-> TRUE,
          value |-> InputStateResponse(available, user_path,
                                       component_path).value]
    ELSE [result |-> FALSE, value |-> value]

Remaining_None(order) == << >>

\* the entries the loop over g_bindings has yet to visit
Remaining(order) == Tail(order)

\* the loop of GetActionState over g_bindings, visited in this order
RECURSIVE Resolved(_, _, _, _, _, _, _)
Resolved(t, pt, c, action, subaction_path, available, order) ==
    IF order = << >> THEN NoState
    ELSE LET binding_path == Head(order)
             rest == Resolved(t, pt, c, action, subaction_path, available,
                              Remaining(order))
         IN  IF ~IsBindingMatch(t, t.g_bindings[binding_path], action,
                                subaction_path)
             THEN rest
             ELSE LET path_str == SafeCopyString(256, StringOf(pt, binding_path))
                      r == GetInputState(c, available, ExtractUserPath(path_str),
                                         ExtractComponentPath(path_str), 0)
                  IN  IF r.result
                      THEN [isActive |-> TRUE, currentState |-> r.value]
                      ELSE rest

\* the order in which a std::unordered_map with these keys is visited, when
\* order lists every key it may hold
Visited(table, order) == SelectSeq(order, LAMBDA k : k \in DOMAIN table)

\* xrGetActionStateFloat(session, getInfo, state) while g_bindings is visited
\* in this order
XrGetActionStateFloat(session, action, subaction_path, order) ==
    /\ input' =
         LET visited == Visited(input.g_bindings, order) IN
         IF session \notin DOMAIN rt.g_sessions
         THEN Called([input EXCEPT !.state = NoState], "xrGetActionStateFloat",
                     session, action, subaction_path, visited,
                     "XR_ERROR_HANDLE_INVALID")
         ELSE IF action \notin DOMAIN input.g_actions
         THEN Called([input EXCEPT !.state = NoState], "xrGetActionStateFloat",
                     session, action, subaction_path, visited,
                     "XR_SUCCESS")
         ELSE Called([input EXCEPT !.state =
                         Resolved(input, paths, rt, action, subaction_path,
                                  input.available, visited)],
                     "xrGetActionStateFloat", session, action, subaction_path,
                     visited, "XR_SUCCESS")
    /\ UNCHANGED paths
    /\ InputOnly

(* ------------------------------ textures ------------------------------- *)
\* the steps of this section leave everything else alone
TextureOnly ==
    UNCHANGED << service, now, frames, client, app, tables, input, host >>

\* the writer stores v in field f and goes on at pc
Stored(f, v, pc) ==
    /\ texture' = [texture EXCEPT !.block[f] = v, !.writer.pc = pc]
    /\ TextureOnly

\* xrEndFrame reaches a projection layer view of the eye; found is the
\* outcome of g_swapchains.find
E_Begin(found) ==
    /\ texture.writer.pc = "idle"
    /\ texture.writer.submit < MaxSubmits
    /\ texture' = [texture EXCEPT
                      !.writer = [pc |-> IF found THEN "clear" ELSE "idle",
                                  submit |-> @.submit + 1]]
    /\ TextureOnly

\* frameTexture.ready.store(0)
E_Clear == texture.writer.pc = "clear" /\ Stored("ready", 0, "width")

\* frameTexture.width.store(swapchainData.width)
E_Width ==
    texture.writer.pc = "width" /\ Stored("width", texture.writer.submit, "height")

\* frameTexture.height.store(swapchainData.height)
E_Height ==
    texture.writer.pc = "height"
        /\ Stored("height", texture.writer.submit, "format")

\* frameTexture.format.store(swapchainData.format)
E_Format ==
    texture.writer.pc = "format"
        /\ Stored("format", texture.writer.submit, "copy1")

\* the readback of the graphics API writes the first half of pixel_data, or
\* fails before (no image, unsupported API, failed readback)
E_Copy1(copySuccess) ==
    /\ texture.writer.pc = "copy1"
    /\ IF copySuccess THEN Stored("pixels1", texture.writer.submit, "copy2")
       ELSE Stored("pixels1", texture.block.pixels1, "idle")

\* ... and the second half, or fails after the first
E_Copy2(copySuccess) ==
    /\ texture.writer.pc = "copy2"
    /\ IF copySuccess THEN Stored("pixels2", texture.writer.submit, "size")
       ELSE Stored("pixels2", texture.block.pixels2, "idle")

\* frameTexture.data_size.store(width * height * 4)
E_Size ==
    texture.writer.pc = "size"
        /\ Stored("data_size", texture.writer.submit, "publish")

\* frameTexture.ready.store(1)
E_Ready == texture.writer.pc = "publish" /\ Stored("ready", 1, "idle")

\* the order in which a reader copies the block
ReadOrder == << "width", "height", "format", "data_size", "pixels1", "pixels2" >>

\* the reader acquire-loads ready and goes on when it is 1
T_Ready ==
    /\ texture.reader.pc = "ready"
    /\ texture' = [texture EXCEPT
                      !.reader = [pc |-> IF texture.block.ready = 1 THEN "read"
                                         ELSE "ready",
                                  k |-> IF texture.block.ready = 1 THEN 1 ELSE 0,
                                  copy |-> [ZeroTexture EXCEPT
                                               !.ready = texture.block.ready]]]
    /\ TextureOnly

\* the reader copies field k of the block
T_Read(k) ==
    /\ texture.reader.pc = "read"
    /\ texture.reader.k = k
    /\ texture' = [texture EXCEPT
                      !.reader.copy[ReadOrder[k]] = texture.block[ReadOrder[k]],
                      !.reader.pc = IF k = Len(ReadOrder) THEN "forward"
                                    ELSE "read",
                      !.reader.k = IF k = Len(ReadOrder) THEN 0 ELSE k + 1]
    /\ TextureOnly

\* the reader hands its copy on and clears ready
T_Forward ==
    /\ texture.reader.pc = "forward"
    /\ texture' = [texture EXCEPT !.block.ready = 0, !.reader.pc = "ready",
                                  !.forwarded = IF @ < MaxSubmits THEN @ + 1 ELSE @]
    /\ TextureOnly

(* ---------------------------- driver host ------------------------------ *)
\* the steps of this section leave everything else alone
DriverOnly ==
    UNCHANGED << service, now, frames, client, app, tables, extras, peers >>

\* the slots LoadDriver requires to be non-null
RequiredSlots == { "initialize", "is_device_connected", "update_view_pose" }

\* what a register function does with a slot of the table it is given: store
\* its own function, store null, or leave the slot as it is
SlotWrites == { "own", "null", "keep" }

\* what the register functions of the libraries do with the table
Registrations ==
    { w \in [Slots -> SlotWrites] :
        w["is_device_connected"] # "keep" /\ w["update_view_pose"] # "keep" }

\* no register function ran
NoWrites == [s \in Slots |-> "keep"]

\* what a library does when it is loaded: LoadLibrary/dlopen gives a handle,
\* ox_driver_register is exported, what it stores and returns, and what the
\* initialize() that is called returns
LoadInputs ==
    { [opened |-> FALSE, found |-> FALSE, writes |-> NoWrites,
       registers |-> FALSE, initializes |-> FALSE],
      [opened |-> TRUE, found |-> FALSE, writes |-> NoWrites,
       registers |-> FALSE, initializes |-> FALSE] }
    \cup [opened : { TRUE }, found : { TRUE }, writes : Registrations,
          registers : BOOLEAN, initializes : BOOLEAN]

\* callbacks_ after the register function of library d was given the table
Registered(callbacks_, d, writes) ==
    [s \in Slots |-> IF writes[s] = "own" THEN d
                     ELSE IF writes[s] = "null" THEN 0
                     ELSE callbacks_[s]]

\* DriverLoader::Unload; the history keeps the shutdown() it called
Unloaded(t) ==
    LET calls == IF t.loaded_ THEN t.callbacks_["shutdown"] ELSE 0 IN
    [t EXCEPT !.driver_handle_ = 0,
              !.loaded_ = FALSE,
              !.open = @ \ { t.driver_handle_ },
              !.shut = IF calls # 0 THEN @ \cup { calls } ELSE @,
              !.last.shutdown = calls]

\* the call was made, with these outcomes
Loaded(t, call, d, registered, initialize, result) ==
    [t EXCEPT !.last.n = 1 - @, !.last.call = call, !.last.library = d,
              !.last.registered = registered, !.last.initialize = initialize,
              !.last.result = result]

\* DriverLoader::LoadDriver(driver_path) for the library d
LoadDriver(d, in) ==
    /\ driver_.loads < MaxLoads
    /\ LET t == [driver_ EXCEPT !.loads = @ + 1, !.last.shutdown = 0]
           opened == [t EXCEPT !.driver_handle_ = d,
                               !.open = @ \cup { d },
                               !.initialized = @ \ { d },
                               !.shut = @ \ { d }]
           registered == [opened EXCEPT
                             !.callbacks_ = Registered(@, d, in.writes)]
           called == registered.callbacks_["initialize"]
       IN  driver_' =
             IF t.loaded_
             THEN Loaded(t, "LoadDriver", d, FALSE, 0, FALSE)
             ELSE IF ~in.opened
             THEN Loaded([t EXCEPT !.driver_handle_ = 0], "LoadDriver", d,
                         FALSE, 0, FALSE)
             ELSE IF ~in.found
             THEN Loaded(Unloaded(opened), "LoadDriver", d, FALSE, 0, FALSE)
             ELSE IF ~in.registers
             THEN Loaded(Unloaded(registered), "LoadDriver", d, FALSE, 0, FALSE)
             ELSE IF \E s \in RequiredSlots : registered.callbacks_[s] = 0
             THEN Loaded(Unloaded(registered), "LoadDriver", d, TRUE, 0, FALSE)
             ELSE IF ~in.initializes
             THEN Loaded(Unloaded(registered), "LoadDriver", d, TRUE, called,
                         FALSE)
             ELSE Loaded([registered EXCEPT !.loaded_ = TRUE,
                                            !.initialized = @ \cup { called }],
                         "LoadDriver", d, TRUE, called, TRUE)
    /\ DriverOnly

\* driver_.Unload(): OxService::LoadDriver for a driver without device, and
\* ~DriverLoader
Unload ==
    /\ driver_' = Loaded(Unloaded(driver_), "Unload", 0, FALSE, 0, FALSE)
    /\ DriverOnly

(* -------------------------- client processes --------------------------- *)
\* a step of a client process touches client_connected and nothing else of
\* the service
PeerOnly ==
    UNCHANGED << ctl, request, wire_out, session_state, active_session_handle,
                 handles, events, now, task, atomic, nsess, nwrites, frames,
                 client, app, tables, extras, driver_ >>

\* ServiceConnection::Connect up to control_.Connect: the process is queued
\* on the listening channel, which takes one process at a time
PeerConnect(p) ==
    /\ peers.pc[p] = "away"
    /\ peers.current = 0
    /\ ctl = "accept"
    /\ peers' = [peers EXCEPT !.pc[p] = "connect", !.current = p]
    /\ UNCHANGED client_connected
    /\ PeerOnly

\* control_.Accept() returns for the process that is queued
AcceptPeer ==
    /\ peers.current # 0
    /\ peers.pc[peers.current] = "connect"
    /\ Accept

\* the requests of Connect(): CONNECT and QueryStaticMetadata
ConnectRequests ==
    { "CONNECT", "GET_RUNTIME_PROPERTIES", "GET_SYSTEM_PROPERTIES",
      "GET_VIEW_CONFIGURATIONS", "GET_INTERACTION_PROFILES" }

\* the service reads a request of the process it serves: one of the requests
\* of Connect(), or the DISCONNECT of Disconnect()
PeerRequest ==
    \E t \in ConnectRequests \cup { "DISCONNECT" } : \E s \in 0 .. MaxSequence :
        /\ peers.current # 0
        /\ peers.pc[peers.current]
               = IF t = "DISCONNECT" THEN "disconnect" ELSE "connect"
        /\ Receive(t, s, EmptyPayload)

\* Connect(): the last request was answered; connected_ = true;
\* client_connected.store(1)
PeerConnected(p) ==
    /\ peers.pc[p] = "connect"
    /\ ctl = "recv"
    /\ Len(wire_out) = 1
    /\ client_connected' = 1
    /\ peers' = [peers EXCEPT !.pc[p] = "connected"]
    /\ PeerOnly

\* Disconnect(): SendRequest(DISCONNECT) has sent the request and waits in
\* control_.Receive
PeerDisconnect(p) ==
    /\ peers.pc[p] = "connected"
    /\ peers' = [peers EXCEPT !.pc[p] = "disconnect"]
    /\ UNCHANGED client_connected
    /\ PeerOnly

\* ... where Receive fails once the service has closed the channel, and
\* SendRequest returns
PeerReceiveFails(p) ==
    /\ peers.pc[p] = "disconnect"
    /\ peers.current = p
    /\ ctl \in { "accept", "down" }
    /\ peers' = [peers EXCEPT !.pc[p] = "store", !.current = 0]
    /\ UNCHANGED client_connected
    /\ PeerOnly

\* ... then client_connected.store(0); control_.Close(); shared_mem_.Close()
PeerDisconnected(p) ==
    /\ peers.pc[p] = "store"
    /\ client_connected' = 0
    /\ peers' = [peers EXCEPT !.pc[p] = "away"]
    /\ PeerOnly

(* ------------------------- specification ------------------------------- *)
\* OxService::Run around MessageLoop, and a failing read
ServiceStep ==
    \/ Accept
    \/ CloseAndRecreate
    \/ RecreateFails
    \/ ReceiveFails

\* the handlers of the session requests and of Disconnect;
\* REQUEST_EXIT_SESSION has no case
SessionStep ==
    \/ HandleCreateSession
    \/ CreateSessionRespond
    \/ HandleDestroySession
    \/ DestroySessionRespond
    \/ HandleGetNextEvent
    \/ HandleDisconnect
    \/ HandleDefault

\* the other handlers
WireStep ==
    \/ HandleConnect
    \/ HandleAllocateHandle
    \/ HandleGetRuntimeProperties
    \/ HandleGetSystemProperties
    \/ HandleGetViewConfigurations
    \/ HandleGetInteractionProfiles
    \/ HandleGetInputComponentState

\* the steps of task t inside TransitionSessionState; the clock has advanced
\* by one of the amounts in ticks when the task reads it
TransitionStep(t, ticks) ==
    \/ TSS_Load(t)
    \/ TSS_Store(t)
    \/ TSS_Handle(t)
    \/ \E elapsed \in ticks : TSS_Clock(t, elapsed)
    \/ TSS_Push(t)

\* the clock standing still, and the clock advancing between two reads
Still == {0}
Ticking == {0, 1}

\* a request of one of the types in types arrives, CreateSession at most
\* sessions times
Request(types, sessions) ==
    \E t \in types : \E s \in 0 .. MaxSequence : \E p \in PayloadsFor(t) :
        /\ t = "CREATE_SESSION" => nsess < sessions
        /\ Receive(t, s, p)

\* the request types that concern the session and its events
SessionRequests ==
    { "CREATE_SESSION", "DESTROY_SESSION", "GET_NEXT_EVENT",
      "REQUEST_EXIT_SESSION", "DISCONNECT" }

\* Spec: every request type, one session; a handler, and a transition once
\* decided, runs to its end before another task moves; the clock stands still
Next ==
    \/ ServiceStep
    \/ SessionStep
    \/ WireStep
    \/ Request(RequestTypes, MaxThreads)
    \/ \E t \in Tasks : TransitionStep(t, Still)

Init == Start(TRUE)

Spec == Init /\ [][Next]_vars

\* SessionSpec: the session requests, MaxSessions sessions one after another;
\* scheduling and clock as in Spec
SessionNext ==
    \/ ServiceStep
    \/ SessionStep
    \/ Request(SessionRequests, MaxSessions)
    \/ \E t \in Tasks : TransitionStep(t, Still)

SessionSpec == Init /\ [][SessionNext]_vars

\* RaceSpec: the session requests, one session; the control task and the
\* detached thread interleave at every step and the clock advances
RaceNext ==
    \/ ServiceStep
    \/ SessionStep
    \/ Request(SessionRequests, MaxThreads)
    \/ \E t \in Tasks : TransitionStep(t, Ticking)

RaceInit == Start(FALSE)

RaceSpec == RaceInit /\ [][RaceNext]_vars

\* ConnectSpec: the service and client processes that connect and disconnect
\* one after another (no process crashes); the steps of the service and of
\* the processes interleave
ConnectNext ==
    \/ \E p \in Peers : PeerConnect(p)
    \/ AcceptPeer
    \/ PeerRequest
    \/ HandleConnect
    \/ HandleGetRuntimeProperties
    \/ HandleGetSystemProperties
    \/ HandleGetViewConfigurations
    \/ HandleGetInteractionProfiles
    \/ HandleDisconnect
    \/ CloseAndRecreate
    \/ RecreateFails
    \/ \E p \in Peers : PeerConnected(p)
    \/ \E p \in Peers : PeerDisconnect(p)
    \/ \E p \in Peers : PeerReceiveFails(p)
    \/ \E p \in Peers : PeerDisconnected(p)

ConnectSpec == RaceInit /\ [][ConnectNext]_vars

\* FrameSpec: the frame task against a client thread that reads the frame
\* state, interleaving at every access
FrameNext ==
    \/ P_FrameId
    \/ \E elapsed \in Ticking : P_Time(elapsed)
    \/ \E i \in {0, 1} : P_Pose(i)
    \/ \E i \in {0, 1} : P_Fov(i)
    \/ P_Devices
    \/ R_First
    \/ \E i \in {0, 1} : R_Pose(i)
    \/ \E i \in {0, 1} : R_Fov(i)
    \/ R_Second
    \/ R_Again
    \/ WaitFrame

FrameSpec == RaceInit /\ [][FrameNext]_vars

\* ClientSpec: the application threads of one client process against a
\* service of either version, interleaving at every channel and mutex access
ClientNext ==
    \/ \E th \in AppThreads : XrCreateInstance(th)
    \/ \E th \in AppThreads : XrPollEvent(th)
    \/ \E th \in AppThreads : XrWaitFrame(th)
    \/ \E th \in AppThreads : ClientSocket(th)
    \/ \E th \in AppThreads : ClientLock(th)
    \/ \E th \in AppThreads : ClientSend(th)
    \/ \E th \in AppThreads : ClientReceive(th)
    \/ \E th \in AppThreads : ClientReceiveFails(th)
    \/ \E th \in AppThreads : ClientUnlock(th)
    \/ \E th \in AppThreads : ClientConnected(th)
    \/ \E th \in AppThreads : InstanceLock(th)
    \/ \E th \in AppThreads : ClientReturn(th)
    \/ ServiceResponds
    \/ ServiceCloses

ClientInit == \E v \in Versions : StartWith(FALSE, v)

ClientSpec == ClientInit /\ [][ClientNext]_vars

\* PathSpec: an application interning path strings and reading them back,
\* for every hash function the standard library may implement
PathNext ==
    \/ \E s \in Strings : XrStringToPath(s)
    \/ \E p \in Hashes : XrPathToString(p)

PathInit ==
    /\ Boot(FALSE, PROTOCOL_VERSION)
    /\ \E h \in [Strings -> Hashes] : paths = NoPaths(h)
    /\ rt = NoRuntime
    /\ input = NoInput
    /\ texture = NoTexture

PathSpec == PathInit /\ [][PathNext]_vars

\* InstanceSpec: one application thread calling the entry points that work
\* on the instance and session tables, with a service that may end
InstanceNext ==
    \/ \E info, out \in BOOLEAN : CreateInstance(info, out)
    \/ \E h \in ClientHandles : DestroyInstance(h)
    \/ \E h \in ClientHandles : GetInstanceProperties(h)
    \/ \E capacity \in {0, 1}, count, properties \in BOOLEAN :
           EnumerateInstanceExtensionProperties(capacity, count, properties)
    \/ \E i \in ClientHandles, info \in BOOLEAN, value \in ClientHandles :
           CreateSession(i, info, value)
    \/ \E h \in ClientHandles : DestroySession(h)
    \/ \E h \in ClientHandles : BeginSession(h)
    \/ PollEvent
    \/ ServiceDies

InstanceSpec == RaceInit /\ [][InstanceNext]_vars

\* the tokens an application passes for profiles, bindings and subactions
ProfilePaths == { InputHash[ProfileP], InputHash[ProfileQ] }
BindingPaths == { InputHash[LeftHand \o Component], InputHash[RightHand \o Component] }
SubactionPaths == { 0, InputHash[LeftHand] }

\* the orders in which g_bindings may be visited
Orders ==
    { o \in [1 .. Cardinality(BindingPaths) -> BindingPaths] :
        \A j, k \in DOMAIN o : o[j] = o[k] => j = k }

\* the components a driver may have
Components == { << LeftHand, Component >>, << RightHand, Component >> }

\* ActionSpec: one application thread suggesting bindings, attaching action
\* sets and querying action states, with a service that may end
ActionNext ==
    \/ \E profile \in ProfilePaths, action \in { 1, 2 }, binding \in BindingPaths :
           XrSuggestInteractionProfileBindings(profile, action, binding)
    \/ \E session \in { 2, 3 } : XrAttachSessionActionSets(session)
    \/ \E session \in { 2, 3 }, action \in Actions,
          subaction_path \in SubactionPaths, order \in Orders :
           XrGetActionStateFloat(session, action, subaction_path, order)
    \/ ServiceDies

ActionInit ==
    /\ Boot(FALSE, PROTOCOL_VERSION)
    /\ paths = AppPaths
    /\ rt = WithSession
    /\ \E driver \in DriverLists, available \in SUBSET Components :
           input = [NoInput EXCEPT !.g_actions = AppActions,
                                   !.interaction_profiles_ = driver,
                                   !.available = available]
    /\ texture = NoTexture

ActionSpec == ActionInit /\ [][ActionNext]_vars

\* TextureSpec: an application thread in xrEndFrame writing the texture block
\* of an eye while a reader in the service takes the blocks that are ready
TextureNext ==
    \/ \E found \in BOOLEAN : E_Begin(found)
    \/ E_Clear
    \/ E_Width
    \/ E_Height
    \/ E_Format
    \/ \E copySuccess \in BOOLEAN : E_Copy1(copySuccess)
    \/ \E copySuccess \in BOOLEAN : E_Copy2(copySuccess)
    \/ E_Size
    \/ E_Ready
    \/ T_Ready
    \/ \E k \in DOMAIN ReadOrder : T_Read(k)
    \/ T_Forward

TextureSpec == RaceInit /\ [][TextureNext]_vars

\* DriverSpec: the service loading the libraries of its drivers folder and
\* unloading them
DriverNext ==
    \/ \E d \in Drivers, in \in LoadInputs : LoadDriver(d, in)
    \/ Unload

DriverSpec == RaceInit /\ [][DriverNext]_vars

(* --------------------------- properties -------------------------------- *)
\* the request types of the wire-format table
WireTable ==
    { "CONNECT", "DISCONNECT", "CREATE_SESSION", "DESTROY_SESSION",
      "ALLOCATE_HANDLE", "GET_NEXT_EVENT", "GET_RUNTIME_PROPERTIES",
      "GET_SYSTEM_PROPERTIES", "GET_VIEW_CONFIGURATIONS",
      "GET_INTERACTION_PROFILES", "GET_INPUT_STATE_BOOLEAN",
      "GET_INPUT_STATE_FLOAT", "GET_INPUT_STATE_VECTOR2F",
      "REQUEST_EXIT_SESSION" }

\* the size of the request struct of type t
RequiredSize(t) ==
    CASE t = "ALLOCATE_HANDLE" -> SizeofAllocateHandleRequest
      [] t = "REQUEST_EXIT_SESSION" -> SizeofRequestExitSessionRequest
      [] t \in { "GET_INPUT_STATE_BOOLEAN", "GET_INPUT_STATE_FLOAT",
                 "GET_INPUT_STATE_VECTOR2F" } -> SizeofInputStateRequest
      [] t = "GET_INPUT_COMPONENT_STATE" -> SizeofInputComponentStateRequest
      [] OTHER -> 0

WellFormed(h) == h.payload_size >= RequiredSize(h.type)

Malformed(h) == h.type \notin Dispatched \/ ~WellFormed(h)

\* this step ends the handling of the request in hdr: the control task goes
\* back to read the next request, or leaves MessageLoop
Returns ==
    /\ ctl \in { "dispatch", "create_respond", "destroy_respond" }
    /\ ctl' \in { "recv", "closing" }

\* out is one Response frame with sequence number seq
OneResponse(out, seq) ==
    /\ Len(out) = 1
    /\ out[1].type = "RESPONSE"
    /\ out[1].sequence = seq

\* C1: when the service has handled a well-formed request of a type of the
\* wire-format table, it has sent exactly one Response frame with the request's
\* sequence number, before it reads the next request.
C1_EveryRequestAnswered ==
    [][ Returns /\ hdr.type \in WireTable /\ WellFormed(hdr)
          => OneResponse(wire_out', hdr.sequence) ]_vars

\* C2: when the service has handled a malformed request (a type the dispatcher
\* has no case for, or a payload shorter than the request struct), it has
\* still sent one Response frame with the request's sequence number.
C2_MalformedAnswered ==
    [][ Returns /\ Malformed(hdr) => OneResponse(wire_out', hdr.sequence) ]_vars

\* this step sends an event to the client
Delivery ==
    /\ ctl = "dispatch"
    /\ hdr.type = "GET_NEXT_EVENT"
    /\ ndelivered' = ndelivered + 1

\* the events polling is to return after CreateSession
AfterCreate == << "READY", "SYNCHRONIZED", "FOCUSED" >>

\* C3: after a CreateSession handled by an Idle service with an empty queue,
\* and until another session request, the k-th event returned by GetNextEvent
\* is Ready, Synchronized, Focused for k = 1, 2, 3 and there is no fourth.
C3_ReadySynchronizedFocused ==
    [][ Delivery /\ scenario.kind = "create"
          => /\ scenario.progress < Len(AfterCreate)
             /\ wire_out'[1].body.state = AfterCreate[scenario.progress + 1] ]_vars

\* the arrows of the legal-transition diagram
LegalTransitions ==
    { << "IDLE", "READY" >>, << "READY", "SYNCHRONIZED" >>,
      << "SYNCHRONIZED", "VISIBLE" >>, << "VISIBLE", "FOCUSED" >>,
      << "STOPPING", "IDLE" >> }
    \cup { << s, "STOPPING" >> : s \in Running }

\* C4: every change of session_state follows an arrow of the legal-transition
\* diagram.
C4_LegalTransitionsOnly ==
    [][ session_state' # session_state
          => << session_state, session_state' >> \in LegalTransitions ]_vars

\* no request is being handled, no thread is left that will transition, and
\* polling has returned every event
Quiescent ==
    /\ ctl = "recv"
    /\ pending_events_ = << >>
    /\ \A t \in Tasks : task[t].pc = "off" /\ task[t].target \in { "NONE", "DONE" }

\* C5: after RequestExitSession on a running session, once polling has
\* returned every event the service will ever emit, it has returned a Stopping
\* event and then an Idle event.
C5_ExitYieldsStoppingIdle ==
    scenario.kind = "exit" /\ Quiescent => scenario.progress = 2

\* C6: when DestroySession was handled with a session active, the handler has
\* appended a Stopping event and then an Idle event to the queue.
C6_DestroyWalksStoppingIdle ==
    ctl = "destroy_respond" /\ pre.handle # 0
        => pre.pushed = << "STOPPING", "IDLE" >>

\* C7: the events in the queue are in the order of the stores to
\* session_state they report.
C7_QueueInWriteOrder ==
    \A i, j \in DOMAIN pending_events_ :
        i < j => pending_events_[i].w < pending_events_[j].w

\* C8: an event returned by GetNextEvent has a timestamp not less than that
\* of the event returned before it.
C8_TimestampsNonDecreasing ==
    [][ Delivery => wire_out'[1].body.timestamp >= delivered_timestamp ]_vars

C10_HandlesIncrease ==
    /\ issued # << >> => issued[1] = 1
    /\ \A i \in DOMAIN issued : issued[i] # 0
    /\ \A i, j \in DOMAIN issued : i < j => issued[i] < issued[j]

\* three handles were issued, by CreateSession and by AllocateHandle, the
\* session's handle was freed, and a handle was issued after that
C10_Witness ==
    /\ Len(issued) >= 3
    /\ \E i \in DOMAIN issued :
         /\ issued[i] \notin DOMAIN allocated_handles_
         /\ \E j \in DOMAIN issued : j > i /\ issued[j] \in DOMAIN allocated_handles_

\* the handles issued before the last Accept: those earlier clients held
HeldBefore == { issued[i] : i \in 1 .. held }

FreshClient ==
    /\ client_connected = 1
    /\ ctl = "recv"
    /\ held >= 1
    /\ Len(issued) = held
    /\ issued[held] \in DOMAIN allocated_handles_

\* C12: while such a client is connected, active_session_handle is 0,
\* session_state is Idle and the queue holds no event that carries the handle
\* of an earlier client's session.
C12_NothingOfEarlierSession ==
    FreshClient =>
        /\ active_session_handle = 0
        /\ session_state = "IDLE"
        /\ \A i \in DOMAIN pending_events_ :
               pending_events_[i].session_handle \notin HeldBefore

(* ----------------------------- frame state ------------------------------ *)
\* the fields of a copy of frame.views, as the ticks that wrote them
Fields(views) == { views[1].pose, views[1].fov, views[2].pose, views[2].fov }

\* the fields the reading thread has copied so far
Copied ==
    CASE reader.pc = "fov0" -> { reader.views[1].pose }
      [] reader.pc = "pose1" -> { reader.views[1].pose, reader.views[1].fov }
      [] reader.pc = "fov1" -> { reader.views[1].pose, reader.views[1].fov,
                                 reader.views[2].pose }
      [] reader.pc \in { "second", "done" } -> Fields(reader.views)
      [] OTHER -> { }

\* C13: a reader that read the same frame_id before and after copying
\* frame.views holds views that one single tick of the frame task wrote (the
\* copies that still hold a field of the zeroed memory are left aside)
C13_CopyOfOneTick ==
    ( /\ reader.pc = "done"
      /\ reader.first = reader.second
      /\ Unwritten \notin Fields(reader.views) )
        => Cardinality(Fields(reader.views)) = 1

\* C14: frame_id is stored last in a tick, so a reader that read frame_id = N
\* (N >= 1) and then reads frame fields gets what tick N or a later tick wrote
C14_FrameIdStoredLast ==
    reader.first >= 1 => \A tick \in Copied : tick >= reader.first

\* C15: the frame_id values and the predicted_display_time values an observer
\* reads from the shared memory never decrease
C15_FrameMonotonic ==
    [][ /\ seen'.frame_id >= seen.frame_id
        /\ seen'.predicted_display_time >= seen.predicted_display_time ]_vars

C15_Witness ==
    /\ seen.frame_id = MaxFrames - 1
    /\ seen.predicted_display_time = MaxTime
    /\ frame_counter_ = MaxFrames


(* ------------------------ one session, one writer ----------------------- *)
\* C16: every write of session_state is made by the control task, the thread
\* that runs the message loop (task 0); no other thread writes it
C16_ControlTaskWritesOnly ==
    [][ nwrites' # nwrites
            => task[0].pc = "store" /\ task'[0].pc = "handle" ]_vars

\* the session handles issued and not yet destroyed
LiveSessions ==
    { h \in DOMAIN allocated_handles_ : allocated_handles_[h] = HT_SESSION }

\* C17: at most one session handle is issued and not yet destroyed, also
\* after a CreateSession that arrives while a session is active
C17_OneActiveSession == Cardinality(LiveSessions) <= 1

(* ------------------------------- client -------------------------------- *)
\* C18: when the protocol_version in the shared memory differs from the
\* client's constant, xrCreateInstance returns XR_ERROR_RUNTIME_FAILURE and
\* the client makes no socket connect and sends no message
C18_MismatchLeavesChannelAlone ==
    client.protocol_version # PROTOCOL_VERSION
        => /\ ~client.channel_used
           /\ client.sock = "none"
           /\ client.sent = 0
           /\ ~client.connected_
           /\ \A th \in AppThreads :
                  app[th].call = "xrCreateInstance"
                      => /\ app[th].result = "XR_ERROR_RUNTIME_FAILURE"
                         /\ app[th].todo = << >>

C18_Witness ==
    /\ client.protocol_version # PROTOCOL_VERSION
    /\ client.shared_data_
    /\ \A th \in AppThreads :
           /\ app[th].call = "xrCreateInstance"
           /\ app[th].result = "XR_ERROR_RUNTIME_FAILURE"

\* C19: a request is written to the control channel only when no earlier
\* request is outstanding, whatever the application threads call concurrently
C19_OneRequestOutstanding ==
    [][ client'.sent # client.sent
            => client.outstanding = 0 /\ client'.outstanding = 1 ]_vars

C19_Witness ==
    /\ client.outstanding = 1
    /\ client.sent >= 2
    /\ \E th \in AppThreads :
           /\ At(th, "receive")
           /\ \E other \in AppThreads \ {th} : At(other, "lock")

\* C20: xrWaitFrame sends no request and takes neither send_mutex_ nor
\* g_instance_mutex: an idle thread can always complete it, also while
\* another thread is blocked inside a control request
C20_WaitFrameNeverBlocks ==
    /\ [](\A th \in AppThreads : Idle(th) => ENABLED XrWaitFrame(th))
    /\ [][ \A th \in AppThreads :
               (app'[th] # app[th] /\ app'[th].call = "xrWaitFrame")
                   => /\ client' = client
                      /\ Idle(th)'
                      /\ app'[th].result = "XR_SUCCESS" ]_vars

C20_Witness ==
    \E th \in AppThreads :
        /\ app[th].call = "xrWaitFrame"
        /\ app[th].concurrent
        /\ \E other \in AppThreads \ {th} :
               /\ At(other, "receive")
               /\ client.send_mutex_ = other
               /\ client.g_instance_mutex = other
               /\ client.outstanding = 1
               /\ client.responses = 0

(* -------------------------------- paths -------------------------------- *)
\* C21: for every string s interned with xrStringToPath, xrPathToString of the
\* token it returned gives s and the count strlen(s) + 1, whatever was
\* interned in between
C21_PathRoundTrip ==
    \A s \in DOMAIN paths.returned :
        LET r == PathToString(paths, paths.returned[s], Len(s) + 1) IN
            r.buffer = s /\ r.count = Len(s) + 1

\* C22: two different interned strings have different tokens
C22_DistinctTokens ==
    \A s1, s2 \in DOMAIN paths.returned :
        s1 # s2 => paths.returned[s1] # paths.returned[s2]

(* --------------------------- entry points ------------------------------- *)
\* the step is a call of entry point call
Calls(call) == rt'.last.n # rt.last.n /\ rt'.last.call = call

\* what the service connection and the client tables hold
Kept(t) ==
    << t.g_instances, t.g_sessions, t.connected_, t.shared_data_, t.channel,
       t.alive, t.next_handle_, t.active_session_handle >>

\* C23: after xrDestroyInstance succeeded, a call that uses a session handle
\* created under that instance is rejected with XR_ERROR_HANDLE_INVALID
C23_DerivedHandlesRejected ==
    [][ (Calls("xrBeginSession") \/ Calls("xrDestroySession"))
            /\ rt'.last.arg \in rt.dead
                => rt'.last.result = "XR_ERROR_HANDLE_INVALID" ]_vars

\* C24: xrDestroyInstance returns XR_SUCCESS for a handle in the instance
\* table and removes it; for any other handle (null, never created, already
\* destroyed) it returns XR_ERROR_HANDLE_INVALID and changes nothing
C24_DestroyInstance ==
    [][ Calls("xrDestroyInstance") =>
            IF rt'.last.arg \in rt.g_instances
            THEN /\ rt'.last.result = "XR_SUCCESS"
                 /\ rt'.g_instances = rt.g_instances \ { rt'.last.arg }
            ELSE /\ rt'.last.result = "XR_ERROR_HANDLE_INVALID"
                 /\ Kept(rt') = Kept(rt) ]_vars

C24_Witness ==
    /\ rt.last.call = "xrDestroyInstance"
    /\ rt.last.result = "XR_ERROR_HANDLE_INVALID"
    /\ rt.last.arg \in rt.destroyed
    /\ rt.g_instances # { }

\* C25: an entry point that returns XR_ERROR_VALIDATION_FAILURE made no
\* service call, changed no client table and stored nothing in the caller's
\* output variables
C25_ValidationFailureTouchesNothing ==
    [][ rt'.last.n # rt.last.n /\ rt'.last.result = "XR_ERROR_VALIDATION_FAILURE"
            => /\ Kept(rt') = Kept(rt)
               /\ ~rt'.last.failed
               /\ rt'.out = NoOutput ]_vars

\* C26: once the service is gone, xrPollEvent and xrDestroySession, whose
\* control request fails, return XR_ERROR_RUNTIME_FAILURE, never success or
\* "no event"
C26_GoneServiceIsRuntimeFailure ==
    [][ (Calls("xrPollEvent") \/ Calls("xrDestroySession"))
            /\ rt.channel = "broken" /\ rt'.last.failed
                => rt'.last.result = "XR_ERROR_RUNTIME_FAILURE" ]_vars


\* the action entry point call was just made
Asks(call) == input'.last.n # input.last.n /\ input'.last.call = call

\* the bindings of t that pass the action, subaction and profile filters
Surviving(t, action, subaction_path) ==
    { b \in DOMAIN t.g_bindings :
        IsBindingMatch(t, t.g_bindings[b], action, subaction_path) }

\* the user path of the binding path b
UserOf(pt, b) == ExtractUserPath(StringOf(pt, b))

\* the driver answers 'available' for the binding path b, and the answer
\* reaches the client
AnsweredAvailable(t, pt, c, b) ==
    /\ Usable(c)
    /\ << UserOf(pt, b), ExtractComponentPath(StringOf(pt, b)) >> \in t.available

\* C27: an action-state query reports the action active if and only if at
\* least one binding that survives the action, subaction and profile filters
\* receives an 'available' answer from the driver, and the value reported is
\* the value of such a binding; if every surviving binding is answered
\* 'unavailable' the state is reported inactive.
C27_ActiveIffAvailable ==
    [][ Asks("xrGetActionStateFloat") /\ input'.last.result = "XR_SUCCESS" =>
            LET good == { b \in Surviving(input, input'.last.action,
                                          input'.last.subaction) :
                            AnsweredAvailable(input, paths, rt, b) }
            IN  /\ input'.state.isActive <=> good # { }
                /\ input'.state.isActive =>
                       \E b \in good :
                           input'.state.currentState
                               = DriverValue(UserOf(paths, b)) ]_vars

\* C28: with the same suggested bindings, the same current interaction
\* profile and the same driver answers, a query for an action and a
\* subaction path returns the same active flag in whatever order the binding
\* table is visited.
C28_ActiveWhateverTheOrder ==
    [][ Asks("xrGetActionStateFloat") /\ input'.last.result = "XR_SUCCESS"
            /\ input'.last.action \in DOMAIN input.g_actions =>
            \A o \in Orders :
                Resolved(input, paths, rt, input'.last.action,
                         input'.last.subaction, input.available,
                         Visited(input.g_bindings, o)).isActive
                    = input'.state.isActive ]_vars

\* a query found active with two bindings in the table of which one survives
C28_Witness ==
    /\ input.last.call = "xrGetActionStateFloat"
    /\ input.last.result = "XR_SUCCESS"
    /\ input.state.isActive
    /\ Cardinality(DOMAIN input.g_bindings) = 2
    /\ Cardinality(Surviving(input, input.last.action, input.last.subaction)) = 1

\* C29: after xrAttachSessionActionSets on a known session the current
\* interaction profile is the first profile the application suggested that the
\* driver lists too; when the driver lists none of them and its list is not
\* empty, it is the first profile of the driver_'s list.
C29_AttachSelectsProfile ==
    [][ Asks("xrAttachSessionActionSets")
            /\ input'.last.session \in DOMAIN rt.g_sessions =>
            LET driver == input.interaction_profiles_
                hits == { k \in DOMAIN input.suggested :
                            \E i \in DOMAIN driver :
                                PathOf(paths, driver[i]) = input.suggested[k] }
            IN  IF hits # { }
                THEN \E k \in hits :
                        /\ \A j \in hits : k <= j
                        /\ input'.g_current_interaction_profile
                               = input.suggested[k]
                ELSE Len(driver) > 0 =>
                        input'.g_current_interaction_profile
                            = PathOf(paths', driver[1]) ]_vars

\* attached after p then q were suggested, to a driver listing q before p
C29_Witness ==
    /\ input.last.call = "xrAttachSessionActionSets"
    /\ input.last.session \in DOMAIN rt.g_sessions
    /\ input.suggested = << InputHash[ProfileP], InputHash[ProfileQ] >>
    /\ input.interaction_profiles_ = << ProfileQ, ProfileP >>
    /\ input.g_current_interaction_profile = InputHash[ProfileP]


\* C30: whenever a reader has acquire-loaded ready = 1 for the texture block
\* of an eye, the width, height, format, data_size and pixel_data it takes
\* from the block all come from one completed submit.
C30_ReadyBlockOfOneSubmit ==
    texture.reader.pc = "forward" =>
        \E n \in 1 .. MaxSubmits :
            \A f \in TextureFields : texture.reader.copy[f] = n


\* a call of the loader was just made
Loads(call) == driver_'.last.n # driver_.last.n /\ driver_'.last.call = call

\* C31: the initialize() of a driver is called only after the register
\* function of that driver reported success and the initialize,
\* is_device_connected and update_view_pose slots were found non-null; when a
\* check fails the load fails and initialize() is not called.
C31_InitializeAfterChecks ==
    [][ Loads("LoadDriver") =>
            LET complete ==
                    \A s \in { "initialize", "is_device_connected",
                               "update_view_pose" } :
                        driver_'.callbacks_[s] # 0
            IN  /\ driver_'.last.initialize # 0 =>
                       /\ driver_'.last.initialize = driver_'.last.library
                       /\ driver_'.last.registered
                       /\ complete
                /\ ~ (driver_'.last.registered /\ complete) =>
                       ~driver_'.last.result /\ driver_'.last.initialize = 0 ]_vars

\* C32: across the calls of LoadDriver and Unload, shutdown() is called only
\* for a driver whose initialize() succeeded, at most once per successful
\* load, and before the library handle of that driver is released.
C32_ShutdownOncePerLoad ==
    [][ driver_'.last.n # driver_.last.n /\ driver_'.last.shutdown # 0 =>
            /\ driver_'.last.shutdown \in driver_.initialized
            /\ driver_'.last.shutdown \notin driver_.shut
            /\ driver_'.last.shutdown \in driver_.open ]_vars


\* the request types ServiceConnection sends and then blocks in Receive for:
\* SendRequest (Connect, Disconnect, xrCreateSession, xrDestroySession,
\* xrRequestExitSession), AllocateHandle, GetNextEvent, the metadata queries
\* and GetInputState<...>
BlockingCalls ==
    { "CONNECT", "DISCONNECT", "CREATE_SESSION", "DESTROY_SESSION",
      "REQUEST_EXIT_SESSION", "ALLOCATE_HANDLE", "GET_NEXT_EVENT",
      "GET_RUNTIME_PROPERTIES", "GET_SYSTEM_PROPERTIES",
      "GET_VIEW_CONFIGURATIONS", "GET_INTERACTION_PROFILES",
      "GET_INPUT_STATE_BOOLEAN", "GET_INPUT_STATE_FLOAT",
      "GET_INPUT_STATE_VECTOR2F" }

\* C33: the client and the service are never both blocked on the control
\* channel: when the control task goes back to wait for the next request, the
\* client call whose request it has just handled (xrRequestExitSession and the
\* input-state queries included) has a frame to read and so returns.
C33_NeverBothBlocked ==
    [][ /\ Returns
        /\ ctl' = "recv"
        /\ hdr.type \in BlockingCalls
        /\ WellFormed(hdr)
        => Len(wire_out') > 0 ]_vars


\* C34: whenever no request handler is executing, active_session_handle is 0
\* exactly when session_state is Idle, however the delayed transitions
\* started by CreateSession interleave with the control task.
C34_HandleZeroIffIdle ==
    ctl \in { "accept", "recv", "closing", "down" } =>
        (active_session_handle = 0 <=> session_state = "IDLE")


\* C35: xrCreateSession returns XR_SUCCESS only if its CreateSession request
\* received a response, and the handle it stores is the one the service
\* allocated for that very request, never one an earlier session left in
\* active_session_handle.
C35_HandleOfThisRequest ==
    [][ Calls("xrCreateSession") /\ rt'.last.result = "XR_SUCCESS" =>
            /\ ~rt'.last.failed
            /\ rt'.out.session = rt.next_handle_
            /\ rt'.next_handle_ = rt.next_handle_ + 1 ]_vars


\* C36: after a successful receive, the payload handed to the handler is
\* exactly the payload_size bytes of that message: a message with
\* payload_size 0 yields an empty payload, never bytes left from an earlier
\* message.
C36_PayloadOfThisMessage ==
    ctl = "dispatch" =>
        /\ payload.size = hdr.payload_size
        /\ hdr.payload_size = 0 => payload = EmptyPayload


\* C37: xrDestroySession called with a handle that is not in the client's
\* session table returns XR_ERROR_HANDLE_INVALID and sends no DestroySession
\* request: the session active in the service stays as it was.
C37_UnknownSessionRejected ==
    [][ Calls("xrDestroySession") /\ rt'.last.arg \notin DOMAIN rt.g_sessions =>
            /\ rt'.last.result = "XR_ERROR_HANDLE_INVALID"
            /\ ~rt'.last.failed
            /\ rt'.active_session_handle = rt.active_session_handle ]_vars


\* C38: every event appended to the queue carries the non-zero handle of the
\* session whose transition it reports, the Idle event of a destroyed
\* session included.
C38_EventCarriesSessionHandle ==
    [][ \A k \in DOMAIN pending_events_' :
            pending_events_'[k].n > npushed =>
                pending_events_'[k].session_handle # 0 ]_vars


\* C39: a binding whose profile list does not contain the current
\* interaction profile never supplies an action state: a query reported
\* active took its state from a binding of the action that lists the current
\* profile, so none is reported active while the current profile is null.
C39_OnlyCurrentProfileSupplies ==
    [][ Asks("xrGetActionStateFloat") /\ input'.state.isActive =>
            \E b \in DOMAIN input.g_bindings :
                /\ input.g_bindings[b].action = input'.last.action
                /\ Holds(input.g_bindings[b].profiles,
                         input.g_current_interaction_profile) ]_vars


\* C40: client_connected is 1 whenever the control task is inside the
\* message loop for a connected client and 0 whenever it waits in accept,
\* however the service interleaves with a client finishing its disconnect
\* and a client newly connecting.
C40_ConnectedFlagFollowsLoop ==
    /\ ctl \in { "recv", "dispatch" } => client_connected = 1
    /\ ctl = "accept" => client_connected = 0

====
